---- MODULE Spec2Model ----
(***************************************************************************)
(* Catalog reconciliation engine of everstacklabs/sentinel: the version    *)
(* step (bumpVersion / bumpSemver), the diff engine (diff.Compute), the    *)
(* smart-merge writer (catalog.SmartMergeWriter.WriteModel), the           *)
(* per-provider orchestration (pipeline.Sync / syncProvider), the          *)
(* read-only run (pipeline.Diff) and the branch and pull request of a      *)
(* pass (createPR).                                                        *)
(*                                                                         *)
(* Strings that the code parses character by character (the version file)  *)
(* are sequences of one-character strings.  Cost figures are integers in   *)
(* units of 1e-6 dollars per 1K tokens (0.005 is 5000).                    *)
(***************************************************************************)
EXTENDS Integers, Sequences, FiniteSets, TLC

\* ------------------------------------------------------------------ bounds

\* Longest version string (without the trailing newline) the version file
\* starts with.
MaxVerLen == 6

\* Most records one discovery returns.
MaxDiscovered == 2

\* Calls of diff.Compute on one input.
MaxComputeCalls == 2

VARIABLES
    versionTxt,   \* content of <catalog>/version.txt, a sequence of characters
    bumpLog,      \* the bumpVersion calls made so far: [before, hasNew, err, after]
    stored,       \* WriteModel: the file at the record's path before the call
    incoming,     \* WriteModel: the discovered record handed to the call
    written,      \* WriteModel: the calls made so far: [file, isNew, changes, err, wrote]
    diffExisting,   \* Compute: the stored records of the provider, by name
    diffDiscovered, \* Compute: the discovered records handed to the call
    changeSets,   \* Compute: the ChangeSets returned so far
    diffOpts,     \* Compute: the DiffOptions of the process
    riskInput,    \* assessRisk: the ChangeSet handed to the call
    riskSeen,     \* assessRisk: what the calls made so far returned
    snapshotName, \* looksLikeDatedSnapshot: the name of a stored record
    snapshotSeen, \* looksLikeDatedSnapshot: what the calls made so far returned
    pathName,     \* WriteModel: the Name of the record handed to the call
    pathsTouched, \* WriteModel: the file paths the calls made so far read and wrote
    cfg,          \* config.Config of the Pipeline
    disk,         \* <catalog>/providers: provider -> record name -> file
    manifest,     \* <catalog>/manifest.yaml
    feed,         \* what each adapter's Discover returns
    catalog,      \* Pipeline.catalog, the snapshot LoadCatalog took
    results,      \* Sync: the SyncResults collected so far
    cursor,       \* Sync: index of the provider the loop is at, 0 outside Sync
    clock,        \* time.Now(), in seconds
    prs,          \* the pull requests created so far
    git,          \* the catalog's git repository: base branch and pushed branches
    diffRuns,     \* history: one entry per return of Diff
    passes,       \* history: one entry per syncProvider call
    syncs         \* history: one entry per return of Sync

vars == <<versionTxt, bumpLog, stored, incoming, written, diffExisting, diffDiscovered,
          changeSets, diffOpts, riskInput, riskSeen, snapshotName, snapshotSeen,
          pathName, pathsTouched,
          cfg, disk, manifest, feed, catalog, results, cursor, clock, prs, git, diffRuns,
          passes, syncs>>

\* The variables of the version step and of a single WriteModel call.
semverVars == <<versionTxt, bumpLog>>
writeVars == <<stored, incoming, written>>
diffVars == <<diffExisting, diffDiscovered, changeSets, diffOpts>>
\* The variables of the single calls of assessRisk, looksLikeDatedSnapshot and
\* of the path WriteModel works on.
callVars == <<riskInput, riskSeen, snapshotName, snapshotSeen, pathName, pathsTouched>>
pipelineVars == <<cfg, disk, manifest, feed, catalog, results, cursor, clock, prs, git,
                  diffRuns, passes, syncs>>

SemverIdle == versionTxt = <<>> /\ bumpLog = <<>>
DiffIdle ==
    /\ diffExisting = << >> /\ diffDiscovered = << >> /\ changeSets = << >>
    /\ diffOpts = [TrackDisplayName |-> FALSE]
CallsIdle ==
    /\ riskInput = << >> /\ riskSeen = << >>
    /\ snapshotName = << >> /\ snapshotSeen = << >>
    /\ pathName = << >> /\ pathsTouched = << >>

\* ---------------------------------------------------------- strings, numbers

Digits == {"0", "1", "2", "3", "4", "5", "6", "7", "8", "9"}

DigitVal(c) ==
    CASE c = "0" -> 0 [] c = "1" -> 1 [] c = "2" -> 2 [] c = "3" -> 3
      [] c = "4" -> 4 [] c = "5" -> 5 [] c = "6" -> 6 [] c = "7" -> 7
      [] c = "8" -> 8 [] c = "9" -> 9

DigitChar(d) ==
    CASE d = 0 -> "0" [] d = 1 -> "1" [] d = 2 -> "2" [] d = 3 -> "3"
      [] d = 4 -> "4" [] d = 5 -> "5" [] d = 6 -> "6" [] d = 7 -> "7"
      [] d = 8 -> "8" [] d = 9 -> "9"

\* unicode.IsSpace on the characters the model uses.
IsSpace(c) == c \in {" ", "\n"}

\* strings.TrimSpace: leading and trailing white space removed.
RECURSIVE TrimLeft(_)
TrimLeft(s) ==
    IF s # <<>> /\ IsSpace(Head(s)) THEN TrimLeft(Tail(s)) ELSE s

RECURSIVE TrimRight(_)
TrimRight(s) ==
    IF s # <<>> /\ IsSpace(s[Len(s)]) THEN TrimRight(SubSeq(s, 1, Len(s) - 1)) ELSE s

TrimSpace(s) == TrimRight(TrimLeft(s))

\* strings.Split(s, "."): the parts between the separators, always at least one.
RECURSIVE SplitAcc(_, _, _)
SplitAcc(s, sep, cur) ==
    IF s = <<>> THEN <<cur>>
    ELSE IF Head(s) = sep THEN <<cur>> \o SplitAcc(Tail(s), sep, <<>>)
    ELSE SplitAcc(Tail(s), sep, Append(cur, Head(s)))

Split(s, sep) == SplitAcc(s, sep, <<>>)

\* The longest prefix of s made of digits.
RECURSIVE DigitPrefix(_)
DigitPrefix(s) ==
    IF s # <<>> /\ Head(s) \in Digits THEN <<Head(s)>> \o DigitPrefix(Tail(s)) ELSE <<>>

\* Decimal value of a sequence of digits, as strconv.ParseInt computes it.
RECURSIVE ParseDigits(_, _)
ParseDigits(s, acc) ==
    IF s = <<>> THEN acc ELSE ParseDigits(Tail(s), 10 * acc + DigitVal(Head(s)))

\* fmt.Sscanf(part, "%d", &v) with the error dropped and v zero before the
\* call: white space is skipped, the digits that follow are converted and the
\* rest of the input is left unread; with no digit there the scan fails and v
\* keeps its zero value.
Sscanf(part) ==
    LET tok == DigitPrefix(TrimLeft(part))
    IN  IF tok = <<>> THEN 0 ELSE ParseDigits(tok, 0)

\* fmt.Sprintf("%d", n) for n >= 0.
RECURSIVE FormatInt(_)
FormatInt(n) ==
    IF n < 10 THEN <<DigitChar(n)>> ELSE Append(FormatInt(n \div 10), DigitChar(n % 10))

\* ------------------------------------------------------------- version step

\* bumpSemver with the minor increment of the hasNew branch left out.
bumpSemverNoMinor(version, hasNew) ==
    LET parts == Split(version, ".")
    IN  IF Len(parts) # 3 THEN [err |-> TRUE, out |-> <<>>]
        ELSE LET major == Sscanf(parts[1])
                 minor == Sscanf(parts[2])
                 patch == Sscanf(parts[3])
                 patch2 == IF hasNew THEN 0 ELSE patch + 1
             IN  [err |-> FALSE,
                  out |-> FormatInt(major) \o <<".">> \o FormatInt(minor)
                            \o <<".">> \o FormatInt(patch2)]

\* bumpSemver with the patch reset of the hasNew branch left out.
bumpSemverKeepPatch(version, hasNew) ==
    LET parts == Split(version, ".")
    IN  IF Len(parts) # 3 THEN [err |-> TRUE, out |-> <<>>]
        ELSE LET major == Sscanf(parts[1])
                 minor == Sscanf(parts[2])
                 patch == Sscanf(parts[3])
                 minor2 == IF hasNew THEN minor + 1 ELSE minor
                 patch2 == IF hasNew THEN patch ELSE patch + 1
             IN  [err |-> FALSE,
                  out |-> FormatInt(major) \o <<".">> \o FormatInt(minor2)
                            \o <<".">> \o FormatInt(patch2)]

\* pipeline.bumpSemver: the error flag and the new version string.
bumpSemver(version, hasNew) ==
    LET parts == Split(version, ".")
    IN  IF Len(parts) # 3 THEN [err |-> TRUE, out |-> <<>>]
        ELSE LET major == Sscanf(parts[1])
                 minor == Sscanf(parts[2])
                 patch == Sscanf(parts[3])
                 minor2 == IF hasNew THEN minor + 1 ELSE minor
                 patch2 == IF hasNew THEN 0 ELSE patch + 1
             IN  [err |-> FALSE,
                  out |-> FormatInt(major) \o <<".">> \o FormatInt(minor2)
                            \o <<".">> \o FormatInt(patch2)]

\* pipeline.Pipeline.bumpVersion on a version file holding `file`: the file's
\* new content and whether the step returned an error.
bumpVersion(file, hasNew) ==
    LET r == bumpSemver(TrimSpace(file), hasNew)
    IN  IF r.err THEN [err |-> TRUE, file |-> file]
        ELSE [err |-> FALSE, file |-> r.out \o <<"\n">>]

\* ------------------------------------------------------------ catalog.Model

\* A nil *Cost is [set |-> FALSE]; figures are in 1e-6 dollars per 1K tokens.
NilCost == [set |-> FALSE, input_per_1k |-> 0, output_per_1k |-> 0]

Cost(i, o) == [set |-> TRUE, input_per_1k |-> i, output_per_1k |-> o]

\* A nil *XUpdater is [set |-> FALSE].
NilXUpdater == [set |-> FALSE, last_verified_at |-> 0, sources |-> <<>>]

\* catalog.Model (and adapter.DiscoveredModel, which has the same fields plus
\* discovered_by).
MkModel(name, display, family, status, cost, maxTokens, maxCompletion, caps, inp, outp) ==
    [name |-> name, display_name |-> display, family |-> family, status |-> status,
     cost |-> cost,
     limits |-> [max_tokens |-> maxTokens, max_completion_tokens |-> maxCompletion],
     capabilities |-> caps,
     modalities |-> [input |-> inp, output |-> outp],
     x_updater |-> NilXUpdater]

\* The zero value of catalog.Model.
ZeroModel == MkModel("", "", "", "", NilCost, 0, 0, <<>>, <<>>, <<>>)

\* ---------------------------------------------------------------- yaml.Node

\* A YAML node: a scalar (string, integer or float), a sequence of strings, or
\* a mapping, whose pairs keep their order.
StrNode(s)  == [kind |-> "str", str |-> s, num |-> 0, items |-> <<>>, pairs |-> <<>>]
NumNode(n)  == [kind |-> "num", str |-> "", num |-> n, items |-> <<>>, pairs |-> <<>>]
SeqNode(xs) == [kind |-> "seq", str |-> "", num |-> 0, items |-> xs, pairs |-> <<>>]
MapNode(ps) == [kind |-> "map", str |-> "", num |-> 0, items |-> <<>>, pairs |-> ps]
NullNode    == [kind |-> "null", str |-> "", num |-> 0, items |-> <<>>, pairs |-> <<>>]

Pair(k, v) == [key |-> k, val |-> v]

\* The keys of a mapping node, in file order.
Keys(node) == [i \in 1..Len(node.pairs) |-> node.pairs[i].key]

HasKey(node, k) == \E i \in 1..Len(node.pairs) : node.pairs[i].key = k

\* The value of the first pair of the mapping with key k.
Get(node, k) ==
    node.pairs[CHOOSE i \in 1..Len(node.pairs) :
                  /\ node.pairs[i].key = k
                  /\ \A j \in 1..(i - 1) : node.pairs[j].key # k].val

\* yaml.Marshal of a catalog.Model followed by yaml.Unmarshal into a yaml.Node
\* (writer.go:81-89; also the bytes writeNewModel writes): the struct's fields
\* in declaration order, cost and x_updater omitted when nil, and
\* max_completion_tokens omitted when zero.
MarshalModel(m) ==
    MapNode(
        << Pair("name", StrNode(m.name)),
           Pair("display_name", StrNode(m.display_name)),
           Pair("family", StrNode(m.family)),
           Pair("status", StrNode(m.status)) >>
        \o (IF m.cost.set
              THEN << Pair("cost", MapNode(<< Pair("input_per_1k", NumNode(m.cost.input_per_1k)),
                                              Pair("output_per_1k", NumNode(m.cost.output_per_1k)) >>)) >>
              ELSE << >>)
        \o << Pair("limits",
                   MapNode(<< Pair("max_tokens", NumNode(m.limits.max_tokens)) >>
                           \o (IF m.limits.max_completion_tokens # 0
                                 THEN << Pair("max_completion_tokens",
                                              NumNode(m.limits.max_completion_tokens)) >>
                                 ELSE << >>))),
              Pair("capabilities", SeqNode(m.capabilities)),
              Pair("modalities", MapNode(<< Pair("input", SeqNode(m.modalities.input)),
                                            Pair("output", SeqNode(m.modalities.output)) >>)) >>
        \o (IF m.x_updater.set
              THEN << Pair("x_updater",
                           MapNode(<< Pair("last_verified_at", NumNode(m.x_updater.last_verified_at)),
                                      Pair("sources", SeqNode(m.x_updater.sources)) >>)) >>
              ELSE << >>))

\* Field of a mapping decoded by yaml.Unmarshal: the zero value when the key
\* is missing.
StrField(node, k) == IF HasKey(node, k) THEN Get(node, k).str ELSE ""
NumField(node, k) == IF HasKey(node, k) THEN Get(node, k).num ELSE 0
SeqField(node, k) == IF HasKey(node, k) THEN Get(node, k).items ELSE <<>>
MapField(node, k) == IF HasKey(node, k) THEN Get(node, k) ELSE MapNode(<<>>)

\* yaml.Unmarshal of a record file into a catalog.Model (writer.go:69-72,
\* catalog.go:99-103): known keys fill the struct, unknown keys are dropped.
UnmarshalModel(doc) ==
    [name |-> StrField(doc, "name"),
     display_name |-> StrField(doc, "display_name"),
     family |-> StrField(doc, "family"),
     status |-> StrField(doc, "status"),
     cost |-> IF HasKey(doc, "cost")
                THEN Cost(NumField(Get(doc, "cost"), "input_per_1k"),
                          NumField(Get(doc, "cost"), "output_per_1k"))
                ELSE NilCost,
     limits |-> [max_tokens |-> NumField(MapField(doc, "limits"), "max_tokens"),
                 max_completion_tokens |->
                     NumField(MapField(doc, "limits"), "max_completion_tokens")],
     capabilities |-> SeqField(doc, "capabilities"),
     modalities |-> [input |-> SeqField(MapField(doc, "modalities"), "input"),
                     output |-> SeqField(MapField(doc, "modalities"), "output")],
     x_updater |-> IF HasKey(doc, "x_updater")
                     THEN [set |-> TRUE,
                           last_verified_at |-> NumField(Get(doc, "x_updater"), "last_verified_at"),
                           sources |-> SeqField(Get(doc, "x_updater"), "sources")]
                     ELSE NilXUpdater]

\* ------------------------------------------------------- smart-merge writer

\* catalog.FieldChange.
FieldChange(field, old, new) == [field |-> field, old |-> old, new |-> new]

CostNode(c) ==
    IF c.set THEN MapNode(<< Pair("input_per_1k", NumNode(c.input_per_1k)),
                             Pair("output_per_1k", NumNode(c.output_per_1k)) >>)
    ELSE NullNode

\* writer.go toSet: the elements of a slice.
toSet(items) == {items[i] : i \in 1..Len(items)}

\* catalog.computeChanges (writer.go:155-200).
computeChanges(existing, discovered) ==
    (IF existing.display_name # discovered.display_name /\ discovered.display_name # ""
       THEN << FieldChange("display_name", StrNode(existing.display_name),
                           StrNode(discovered.display_name)) >> ELSE << >>)
    \o (IF existing.family # discovered.family /\ discovered.family # ""
       THEN << FieldChange("family", StrNode(existing.family), StrNode(discovered.family)) >>
       ELSE << >>)
    \o (IF existing.status # discovered.status /\ discovered.status # ""
       THEN << FieldChange("status", StrNode(existing.status), StrNode(discovered.status)) >>
       ELSE << >>)
    \o (IF ~discovered.cost.set THEN << >>
        ELSE IF ~existing.cost.set
          THEN << FieldChange("cost", NullNode, CostNode(discovered.cost)) >>
        ELSE (IF existing.cost.input_per_1k # discovered.cost.input_per_1k
                THEN << FieldChange("cost.input_per_1k", NumNode(existing.cost.input_per_1k),
                                    NumNode(discovered.cost.input_per_1k)) >> ELSE << >>)
             \o (IF existing.cost.output_per_1k # discovered.cost.output_per_1k
                THEN << FieldChange("cost.output_per_1k", NumNode(existing.cost.output_per_1k),
                                    NumNode(discovered.cost.output_per_1k)) >> ELSE << >>))
    \o (IF discovered.limits.max_tokens # 0
           /\ existing.limits.max_tokens # discovered.limits.max_tokens
       THEN << FieldChange("limits.max_tokens", NumNode(existing.limits.max_tokens),
                           NumNode(discovered.limits.max_tokens)) >> ELSE << >>)
    \o (IF discovered.limits.max_completion_tokens # 0
           /\ existing.limits.max_completion_tokens # discovered.limits.max_completion_tokens
       THEN << FieldChange("limits.max_completion_tokens",
                           NumNode(existing.limits.max_completion_tokens),
                           NumNode(discovered.limits.max_completion_tokens)) >> ELSE << >>)
    \o (IF \E i \in 1..Len(discovered.capabilities) :
              discovered.capabilities[i] \notin toSet(existing.capabilities)
       THEN << FieldChange("capabilities", SeqNode(existing.capabilities),
                           SeqNode(discovered.capabilities)) >> ELSE << >>)

\* The src key -> value index mergeNodes builds (writer.go:129-132): a later
\* pair with the same key replaces an earlier one.
SrcVal(src, k) ==
    src.pairs[CHOOSE i \in 1..Len(src.pairs) :
                 /\ src.pairs[i].key = k
                 /\ \A j \in (i + 1)..Len(src.pairs) : src.pairs[j].key # k].val

\* mergeNodes with the keys only the incoming record defines put in front of
\* the stored ones.
mergeNodesFreshFirst(dst, src) ==
    IF dst.kind # "map" \/ src.kind # "map" THEN src
    ELSE LET updated == [i \in 1..Len(dst.pairs) |->
                            IF HasKey(src, dst.pairs[i].key)
                              THEN Pair(dst.pairs[i].key, SrcVal(src, dst.pairs[i].key))
                              ELSE dst.pairs[i]]
             fresh == SelectSeq(src.pairs, LAMBDA p : ~HasKey(dst, p.key))
         IN  MapNode(fresh \o updated)

\* catalog.mergeNodes (writer.go:115-153): src's top-level values replace dst's
\* in place, dst's other pairs stay, src's other pairs are appended.
mergeNodes(dst, src) ==
    IF dst.kind # "map" \/ src.kind # "map" THEN src
    ELSE LET updated == [i \in 1..Len(dst.pairs) |->
                            IF HasKey(src, dst.pairs[i].key)
                              THEN Pair(dst.pairs[i].key, SrcVal(src, dst.pairs[i].key))
                              ELSE dst.pairs[i]]
             fresh == SelectSeq(src.pairs, LAMBDA p : ~HasKey(dst, p.key))
         IN  MapNode(updated \o fresh)

\* A file of a models directory: absent, not parseable as YAML, or a document.
NoFile == [state |-> "absent", doc |-> NullNode]
BadFile == [state |-> "malformed", doc |-> NullNode]
YamlFile(doc) == [state |-> "yaml", doc |-> doc]

\* WriteModel removing the file it finds nothing to change in.
WriteModelPruning(file, discovered, ioFails) ==
    IF file.state = "absent"
      THEN [file |-> IF ioFails THEN file ELSE YamlFile(MarshalModel(discovered)),
            isNew |-> TRUE, changes |-> << >>, err |-> ioFails, wrote |-> ~ioFails]
    ELSE IF file.state = "malformed"
      THEN [file |-> file, isNew |-> FALSE, changes |-> << >>, err |-> TRUE, wrote |-> FALSE]
    ELSE LET changes == computeChanges(UnmarshalModel(file.doc), discovered)
         IN  IF changes = << >>
               THEN [file |-> NoFile, isNew |-> FALSE, changes |-> changes,
                     err |-> FALSE, wrote |-> FALSE]
             ELSE IF ioFails
               THEN [file |-> file, isNew |-> FALSE, changes |-> changes,
                     err |-> TRUE, wrote |-> FALSE]
             ELSE [file |-> YamlFile(mergeNodes(file.doc, MarshalModel(discovered))),
                   isNew |-> FALSE, changes |-> changes, err |-> FALSE, wrote |-> TRUE]

\* catalog.SmartMergeWriter.WriteModel (writer.go:41-103) on the file at the
\* record's path: the file afterwards, IsNew, Changes and the error flag.
\* ioFails is the outcome of os.WriteFile.
WriteModel(file, discovered, ioFails) ==
    IF file.state = "absent"
      THEN [file |-> IF ioFails THEN file ELSE YamlFile(MarshalModel(discovered)),
            isNew |-> TRUE, changes |-> << >>, err |-> ioFails, wrote |-> ~ioFails]
    ELSE IF file.state = "malformed"
      THEN [file |-> file, isNew |-> FALSE, changes |-> << >>, err |-> TRUE, wrote |-> FALSE]
    ELSE LET changes == computeChanges(UnmarshalModel(file.doc), discovered)
         IN  IF changes = << >>
               THEN [file |-> file, isNew |-> FALSE, changes |-> changes,
                     err |-> FALSE, wrote |-> FALSE]
             ELSE IF ioFails
               THEN [file |-> file, isNew |-> FALSE, changes |-> changes,
                     err |-> TRUE, wrote |-> FALSE]
             ELSE [file |-> YamlFile(mergeNodes(file.doc, MarshalModel(discovered))),
                   isNew |-> FALSE, changes |-> changes, err |-> FALSE, wrote |-> TRUE]

\* --------------------------------------------------------------- diff engine

\* The record names of the model and their characters.
ModelNames == {"a-v1", "a-v2", "b-2024"}

NameChars(name) ==
    CASE name = "a-v1" -> <<"a", "-", "v", "1">>
      [] name = "a-v2" -> <<"a", "-", "v", "2">>
      [] name = "b-2024" -> <<"b", "-", "2", "0", "2", "4">>
      [] OTHER -> << >>

\* diff.isAllDigits (diff.go:271-278).
isAllDigits(s) == Len(s) > 0 /\ \A i \in 1..Len(s) : s[i] \in Digits

\* diff.looksLikeDatedSnapshot (diff.go:251-269): some segment after the first
\* is 4 or 8 digits, or three segments in a row after the first read
\* YYYY-MM-DD.
looksLikeDatedSnapshotChars(chars) ==
    LET parts == Split(chars, "-")
    IN  /\ Len(parts) >= 2
        /\ \/ \E i \in 2..Len(parts) : Len(parts[i]) \in {4, 8} /\ isAllDigits(parts[i])
           \/ \E i \in 2..(Len(parts) - 2) :
                  /\ Len(parts[i]) = 4 /\ Len(parts[i + 1]) = 2 /\ Len(parts[i + 2]) = 2
                  /\ isAllDigits(parts[i]) /\ isAllDigits(parts[i + 1])
                  /\ isAllDigits(parts[i + 2])

\* looksLikeDatedSnapshot on one of the record names of the model.
looksLikeDatedSnapshot(name) == looksLikeDatedSnapshotChars(NameChars(name))

\* adapter.DiscoveredModel: the fields of a record and the source it came from.
Discovered(m, by) ==
    [name |-> m.name, display_name |-> m.display_name, family |-> m.family,
     status |-> m.status, cost |-> m.cost, limits |-> m.limits,
     capabilities |-> m.capabilities, modalities |-> m.modalities, discovered_by |-> by]

\* diff.toCatalogModel (diff.go:76-99).
toCatalogModel(d) ==
    [name |-> d.name, display_name |-> d.display_name, family |-> d.family,
     status |-> d.status,
     cost |-> IF d.cost.set THEN Cost(d.cost.input_per_1k, d.cost.output_per_1k) ELSE NilCost,
     limits |-> [max_tokens |-> d.limits.max_tokens,
                 max_completion_tokens |-> d.limits.max_completion_tokens],
     capabilities |-> d.capabilities,
     modalities |-> [input |-> d.modalities.input, output |-> d.modalities.output],
     x_updater |-> NilXUpdater]

\* diff.zeroCost (diff.go:157-159).
zeroCost(c) == c.input_per_1k = 0 /\ c.output_per_1k = 0

\* capabilitiesChanged looking for additions only.
capabilitiesAdded(existing, discovered) ==
    \E i \in 1..Len(discovered) : discovered[i] \notin toSet(existing)

\* diff.capabilitiesChanged (diff.go:163-188).
capabilitiesChanged(existing, discovered) ==
    IF Len(existing) = 0 /\ Len(discovered) = 0 THEN FALSE
    ELSE \/ \E i \in 1..Len(discovered) : discovered[i] \notin toSet(existing)
         \/ \E i \in 1..Len(existing) : existing[i] \notin toSet(discovered)

\* Number of occurrences of x in the slice.
Count(items, x) == Cardinality({i \in 1..Len(items) : items[i] = x})

\* diff.equalStringSlices (diff.go:191-207): equal lengths and, once both are
\* sorted, equal element by element, that is, equal as multisets.
equalStringSlices(a, b) ==
    /\ Len(a) = Len(b)
    /\ \A x \in toSet(a) \cup toSet(b) : Count(a, x) = Count(b, x)

\* diff.computeFieldChanges (diff.go:101-153).
computeFieldChanges(existing, discovered, opts) ==
    (IF opts.TrackDisplayName /\ discovered.display_name # ""
          /\ existing.display_name # discovered.display_name
       THEN << FieldChange("display_name", StrNode(existing.display_name),
                           StrNode(discovered.display_name)) >> ELSE << >>)
    \o (IF discovered.family # "" /\ existing.family # discovered.family
       THEN << FieldChange("family", StrNode(existing.family), StrNode(discovered.family)) >>
       ELSE << >>)
    \o (IF discovered.status # "" /\ existing.status # discovered.status
       THEN << FieldChange("status", StrNode(existing.status), StrNode(discovered.status)) >>
       ELSE << >>)
    \o (IF ~(discovered.cost.set /\ ~zeroCost(discovered.cost)) THEN << >>
        ELSE IF ~existing.cost.set
          THEN << FieldChange("cost", NullNode, CostNode(discovered.cost)) >>
        ELSE (IF existing.cost.input_per_1k # discovered.cost.input_per_1k
                THEN << FieldChange("cost.input_per_1k", NumNode(existing.cost.input_per_1k),
                                    NumNode(discovered.cost.input_per_1k)) >> ELSE << >>)
             \o (IF existing.cost.output_per_1k # discovered.cost.output_per_1k
                THEN << FieldChange("cost.output_per_1k", NumNode(existing.cost.output_per_1k),
                                    NumNode(discovered.cost.output_per_1k)) >> ELSE << >>))
    \o (IF discovered.limits.max_tokens # 0
           /\ existing.limits.max_tokens # discovered.limits.max_tokens
       THEN << FieldChange("limits.max_tokens", NumNode(existing.limits.max_tokens),
                           NumNode(discovered.limits.max_tokens)) >> ELSE << >>)
    \o (IF discovered.limits.max_completion_tokens # 0
           /\ existing.limits.max_completion_tokens # discovered.limits.max_completion_tokens
       THEN << FieldChange("limits.max_completion_tokens",
                           NumNode(existing.limits.max_completion_tokens),
                           NumNode(discovered.limits.max_completion_tokens)) >> ELSE << >>)
    \o (IF capabilitiesChanged(existing.capabilities, discovered.capabilities)
       THEN << FieldChange("capabilities", SeqNode(existing.capabilities),
                           SeqNode(discovered.capabilities)) >> ELSE << >>)
    \o (IF ~equalStringSlices(existing.modalities.input, discovered.modalities.input)
       THEN << FieldChange("modalities.input", SeqNode(existing.modalities.input),
                           SeqNode(discovered.modalities.input)) >> ELSE << >>)
    \o (IF ~equalStringSlices(existing.modalities.output, discovered.modalities.output)
       THEN << FieldChange("modalities.output", SeqNode(existing.modalities.output),
                           SeqNode(discovered.modalities.output)) >> ELSE << >>)

Abs(x) == IF x < 0 THEN 0 - x ELSE x

\* math.Abs(float64(new)/float64(old) - 1.0) > 0.1 (diff.go:222-223).  Away
\* from the boundary the doubles decide as the exact quotient does; at new =
\* 1.1 * old the double nearest to 1.1 lies above it and the test is true, at
\* new = 0.9 * old it is false.
LimitsDiffer(new, old) == 10 * Abs(new - old) > old \/ 10 * (new - old) = old

\* math.Abs(new/old - 1.0) > 0.2 (diff.go:231-232), for figures that are not
\* exactly 20% apart (there the rounding of the two figures decides; 0.006
\* against 0.005 is within).
CostDiffers(new, old) == 5 * Abs(new - old) > old

\* The test of one (new, disappeared) pair in diff.detectRenames (diff.go:216-236).
RenameMatch(newM, oldM) ==
    /\ ~(newM.family # oldM.family \/ newM.family = "")
    /\ ~(/\ oldM.limits.max_tokens > 0 /\ newM.limits.max_tokens > 0
         /\ LimitsDiffer(newM.limits.max_tokens, oldM.limits.max_tokens))
    /\ ~(/\ oldM.cost.set /\ newM.cost.set /\ oldM.cost.input_per_1k > 0
         /\ CostDiffers(newM.cost.input_per_1k, oldM.cost.input_per_1k))

RenamePair(old, new) ==
    [OldName |-> old, NewName |-> new, Reason |-> "same family, similar limits/cost"]

\* diff.detectRenames (diff.go:211-247): every new record against every
\* disappeared record, in that order.
RECURSIVE detectRenames(_, _)
detectRenames(newModels, disappeared) ==
    IF newModels = << >> THEN << >>
    ELSE LET newM == Head(newModels)
             hits == SelectSeq(disappeared, LAMBDA oldM : RenameMatch(newM.Model, oldM.Model))
         IN  [i \in 1..Len(hits) |-> RenamePair(hits[i].Name, newM.Name)]
             \o detectRenames(Tail(newModels), disappeared)

ModelChange(name, model) == [Name |-> name, Model |-> model]

\* The disappeared records left as candidates with every one kept, renamed or not.
remainingCandidatesAll(disappeared, renames) == disappeared

\* The filter at the end of diff.Compute (diff.go:57-71): the disappeared
\* records that are not the old name of a rename pair.
remainingCandidates(disappeared, renames) ==
    LET renameOldNames == {renames[i].OldName : i \in 1..Len(renames)}
    IN  SelectSeq(disappeared, LAMBDA mc : mc.Name \notin renameOldNames)

\* diff.Compute (diff.go:20-74).  existing is the map of stored records;
\* iterOrder lists its keys in the order this call's `range existing` visits
\* them, which Go leaves unspecified.
Compute(provider, discovered, existing, opts, iterOrder) ==
    LET discoveredSet == {discovered[i].name : i \in 1..Len(discovered)}
        isNew(d) == d.name \notin DOMAIN existing
        changesOf(d) == computeFieldChanges(existing[d.name], toCatalogModel(d), opts)
        fresh == SelectSeq(discovered, isNew)
        changed == SelectSeq(discovered, LAMBDA d : ~isNew(d) /\ changesOf(d) # << >>)
        same == SelectSeq(discovered, LAMBDA d : ~isNew(d) /\ changesOf(d) = << >>)
        new == [i \in 1..Len(fresh) |-> ModelChange(fresh[i].name, toCatalogModel(fresh[i]))]
        gone == SelectSeq(iterOrder,
                          LAMBDA n : n \notin discoveredSet /\ ~looksLikeDatedSnapshot(n))
        disappeared == [i \in 1..Len(gone) |-> ModelChange(gone[i], existing[gone[i]])]
        renames == detectRenames(new, disappeared)
    IN  [Provider |-> provider,
         New |-> new,
         Updated |-> [i \in 1..Len(changed) |->
                         [Name |-> changed[i].name, Model |-> toCatalogModel(changed[i]),
                          Changes |-> changesOf(changed[i])]],
         DeprecationCandidates |-> remainingCandidates(disappeared, renames),
         PossibleRenames |-> renames,
         Unchanged |-> Len(same)]

\* diff.ChangeSet.HasChanges (changeset.go:36-38).
HasChanges(cs) ==
    Len(cs.New) > 0 \/ Len(cs.Updated) > 0 \/ Len(cs.DeprecationCandidates) > 0

\* diff.ChangeSet.TotalChanged (changeset.go:41-43).
TotalChanged(cs) == Len(cs.New) + Len(cs.Updated)

\* The orders in which a Go map with the given keys can be iterated.
IterOrders(keys) ==
    {o \in [1..Cardinality(keys) -> keys] : \A i, j \in DOMAIN o : i # j => o[i] # o[j]}

\* ------------------------------------------------------------------ validate

\* validate.ValidateModel followed by Result.HasErrors (validate package,
\* ValidateModel and HasErrors): whether the record has an issue of severity
\* error.  The file name handed in by validateChanges is Name + ".yaml", which
\* always matches the name field; unknown statuses, capabilities, modalities
\* and a zero output cost are warnings.
ValidateModelHasErrors(m) ==
    LET isEmbedding == "embeddings" \in toSet(m.capabilities)
        minTokens == IF isEmbedding THEN 64 ELSE 1024
    IN  \/ m.name = ""
        \/ m.display_name = ""
        \/ m.status = ""
        \/ m.limits.max_tokens = 0
        \/ Len(m.capabilities) = 0
        \/ Len(m.modalities.input) = 0
        \/ Len(m.modalities.output) = 0
        \/ m.cost.set /\ (m.cost.input_per_1k < 0 \/ m.cost.input_per_1k > 100000)
        \/ m.cost.set /\ (m.cost.output_per_1k < 0 \/ m.cost.output_per_1k > 100000)
        \/ m.limits.max_tokens > 0
             /\ (m.limits.max_tokens < minTokens \/ m.limits.max_tokens > 2000000)
        \/ m.limits.max_completion_tokens > 0
             /\ m.limits.max_completion_tokens > m.limits.max_tokens

\* ---------------------------------------------------------------------- judge

\* A nil *judge.Result is [set |-> FALSE]; of the verdicts the code uses the
\* names rejected (RejectedNames) and whether any is a flag (HasFlags).
NoJudgeResult == [set |-> FALSE, rejected |-> {}, flagged |-> FALSE]

JudgeResult(rejected, flagged) == [set |-> TRUE, rejected |-> rejected, flagged |-> flagged]

\* judge.ApplyToChangeSet (judge.go:131-180): the filtered ChangeSet and
\* forceDraft.
ApplyToChangeSet(cs, result, behavior) ==
    LET HasRejections == result.rejected # {}
        HasFlags == result.flagged
    IN  IF ~result.set THEN [cs |-> cs, forceDraft |-> FALSE]
        ELSE IF ~HasRejections /\ ~HasFlags THEN [cs |-> cs, forceDraft |-> FALSE]
        ELSE IF ~HasRejections THEN [cs |-> cs, forceDraft |-> HasFlags]
        ELSE IF behavior = "draft" THEN [cs |-> cs, forceDraft |-> TRUE]
        ELSE IF behavior = "exclude"
          THEN [cs |-> [cs EXCEPT
                          !.New = SelectSeq(@, LAMBDA m : m.Name \notin result.rejected),
                          !.Updated = SelectSeq(@, LAMBDA u : u.Name \notin result.rejected)],
                forceDraft |-> FALSE]
        ELSE [cs |-> cs, forceDraft |-> TRUE]

\* ------------------------------------------------------------- catalog store

\* os.ReadDir lists a models directory sorted by file name.
SortedNames == <<"a-v1", "a-v2", "b-2024">>

FileOrder(n) == CHOOSE i \in 1..Len(SortedNames) : SortedNames[i] = n

\* catalog.loadProvider (catalog.go:61-107): whether it returns an error, and
\* the map of records by the name written in the file; a later file with the
\* same name replaces an earlier one.
loadProviderFails(dir) == \E n \in DOMAIN dir : dir[n].state = "malformed"

loadProvider(dir) ==
    LET present == {n \in DOMAIN dir : dir[n].state = "yaml"}
        nameOf(n) == UnmarshalModel(dir[n].doc).name
        lastFile(k) == CHOOSE n \in present :
                          /\ nameOf(n) = k
                          /\ \A m \in present : nameOf(m) = k => FileOrder(m) <= FileOrder(n)
    IN  [k \in {nameOf(n) : n \in present} |-> UnmarshalModel(dir[lastFile(k)].doc)]

\* A nil *catalog.Catalog.
NoCatalog == [loaded |-> FALSE, Version |-> << >>, Providers |-> << >>]

\* catalog.Load (catalog.go:26-59): every provider directory on disk is
\* loaded, and the error of any of them is the error of Load.
LoadFails(d) == \E p \in DOMAIN d : loadProviderFails(d[p])

Load(d, versionFile) ==
    [loaded |-> TRUE, Version |-> TrimSpace(versionFile),
     Providers |-> [p \in DOMAIN d |-> loadProvider(d[p])]]

\* No manifest file yet.
NoManifest == [exists |-> FALSE, version |-> << >>, generated_at |-> 0, models |-> << >>]

\* catalog.GenerateManifest: the version, the time, and per provider directory
\* the record files found, sorted.
GenerateManifest(d, versionFile, now) ==
    [exists |-> TRUE, version |-> TrimSpace(versionFile), generated_at |-> now,
     models |-> [p \in DOMAIN d |->
                    SelectSeq(SortedNames, LAMBDA n : d[p][n].state # "absent")]]

\* ------------------------------------------------------------------ pipeline

\* The adapters registered with adapter.Register.
Registered == {"pa", "pb"}

\* HealthChecker.MinExpectedModels of the registered adapters.
MinExpectedModels(p) == IF p \in Registered THEN 1 ELSE 0

NoConfig ==
    [Providers |-> << >>, Sources |-> << >>, DryRun |-> FALSE, TrackDisplayName |-> FALSE,
     JudgeEnabled |-> FALSE, OnReject |-> "", HealthEnabled |-> FALSE,
     ThresholdPct |-> 0, HasToken |-> FALSE]

PipelineIdle ==
    /\ cfg = NoConfig /\ disk = << >> /\ manifest = NoManifest /\ feed = << >>
    /\ catalog = NoCatalog /\ results = << >> /\ cursor = 0 /\ clock = 0
    /\ prs = << >> /\ passes = << >> /\ syncs = << >>
    /\ git = [base |-> << >>, branches |-> << >>] /\ diffRuns = << >>

\* pipeline.deduplicateDiscovered (pipeline.go:365-400): one record per name,
\* in the order the names were first seen.
RECURSIVE dedupInto(_, _)
dedupInto(models, acc) ==
    IF models = << >> THEN acc
    ELSE LET m == Head(models)
             hit == {j \in 1..Len(acc) : acc[j].name = m.name}
         IN  IF hit = {} THEN dedupInto(Tail(models), Append(acc, m))
             ELSE LET j == CHOOSE x \in hit : TRUE
                      ex == acc[j]
                      kept ==
                          IF ex.discovered_by = "api" /\ m.discovered_by # "api"
                            THEN (IF ~ex.cost.set /\ m.cost.set
                                    THEN [ex EXCEPT !.cost = m.cost] ELSE ex)
                          ELSE IF m.discovered_by = "api" /\ ex.discovered_by # "api"
                            THEN (IF ~m.cost.set /\ ex.cost.set
                                    THEN [m EXCEPT !.cost = ex.cost] ELSE m)
                          ELSE ex
                  IN  dedupInto(Tail(models), [acc EXCEPT ![j] = kept])

deduplicateDiscovered(models) == dedupInto(models, << >>)

\* assessRisk with the count gates one entry lower: 25 changes or 3
\* candidates already make a draft.
assessRiskFromGate(cs) ==
    LET bigDelta(c) ==
            /\ c.field \in {"cost.input_per_1k", "cost.output_per_1k"}
            /\ c.old.kind = "num" /\ c.new.kind = "num" /\ c.old.num > 0
            /\ \/ 100 * (c.new.num - c.old.num) > 35 * c.old.num
               \/ 100 * (c.new.num - c.old.num) < 0 - 35 * c.old.num
               \/ c.new.num > c.old.num * 2
    IN  [draft |-> \/ TotalChanged(cs) >= 25
                   \/ Len(cs.DeprecationCandidates) >= 3
                   \/ \E i \in 1..Len(cs.Updated) :
                          \E j \in 1..Len(cs.Updated[i].Changes) :
                              bigDelta(cs.Updated[i].Changes[j]),
         blocked |-> FALSE, reason |-> ""]

\* pipeline.assessRisk (pipeline.go:449-475).  The price deltas are compared
\* as exact quotients.
assessRisk(cs) ==
    LET bigDelta(c) ==
            /\ c.field \in {"cost.input_per_1k", "cost.output_per_1k"}
            /\ c.old.kind = "num" /\ c.new.kind = "num" /\ c.old.num > 0
            /\ \/ 100 * (c.new.num - c.old.num) > 35 * c.old.num
               \/ 100 * (c.new.num - c.old.num) < 0 - 35 * c.old.num
               \/ c.new.num > c.old.num * 2
    IN  [draft |-> \/ TotalChanged(cs) > 25
                   \/ Len(cs.DeprecationCandidates) > 3
                   \/ \E i \in 1..Len(cs.Updated) :
                          \E j \in 1..Len(cs.Updated[i].Changes) :
                              bigDelta(cs.Updated[i].Changes[j]),
         blocked |-> FALSE, reason |-> ""]

\* The result of diff.Compute on nothing, standing for a nil *ChangeSet.
NoChangeSet ==
    [Provider |-> "", New |-> << >>, Updated |-> << >>, DeprecationCandidates |-> << >>,
     PossibleRenames |-> << >>, Unchanged |-> 0]

\* pipeline.Pipeline.checkModelCountThreshold (pipeline.go:427-445): whether
\* it returns a SourceHealthError.  The threshold is held in percent;
\* int(float64(min) * threshold) is the floor of the product.
checkModelCountThreshold(p, discovered) ==
    /\ cfg.HealthEnabled
    /\ MinExpectedModels(p) # 0
    /\ Len(discovered) < (MinExpectedModels(p) * cfg.ThresholdPct) \div 100

\* pipeline.Pipeline.discoverAndDiff (pipeline.go:201-245).  env holds what
\* the outside world does during the pass: env.fault.kind is "health" when the
\* liveness probe fails and "discover" when Discover returns an error;
\* env.order is the iteration order of the map of stored records; cat is
\* Pipeline.catalog, the snapshot LoadCatalog took.
discoverAndDiff(p, env, cat) ==
    IF p \notin Registered THEN [err |-> "unknown adapter", cs |-> NoChangeSet]
    ELSE IF cfg.HealthEnabled /\ env.fault.kind = "health"
      THEN [err |-> "source health", cs |-> NoChangeSet]
    ELSE IF env.fault.kind = "discover"
      THEN [err |-> "discovering models", cs |-> NoChangeSet]
    ELSE LET discovered == deduplicateDiscovered(feed[p])
             existing == IF p \in DOMAIN cat.Providers
                           THEN cat.Providers[p] ELSE << >>
         IN  IF checkModelCountThreshold(p, discovered)
               THEN [err |-> "source health", cs |-> NoChangeSet]
             ELSE [err |-> "",
                   cs |-> Compute(p, discovered, existing,
                                  [TrackDisplayName |-> cfg.TrackDisplayName], env.order)]

\* validateChanges finding nothing.
validateNothing(cs) == FALSE

\* pipeline.Pipeline.validateChanges followed by HasErrors (pipeline.go:129-133,
\* 247-262).
validateChanges(cs) ==
    \/ \E i \in 1..Len(cs.New) : ValidateModelHasErrors(cs.New[i].Model)
    \/ \E i \in 1..Len(cs.Updated) : ValidateModelHasErrors(cs.Updated[i].Model)

\* runJudge failing closed: a failed call counts as a rejection of every
\* record.
runJudgeFailClosed(cs, env) ==
    IF ~cfg.JudgeEnabled THEN [err |-> FALSE, result |-> NoJudgeResult]
    ELSE IF ~HasChanges(cs) THEN [err |-> FALSE, result |-> NoJudgeResult]
    ELSE IF env.judge.err THEN [err |-> FALSE, result |-> JudgeResult(ModelNames, FALSE)]
    ELSE [err |-> FALSE, result |-> JudgeResult(env.judge.rejected, env.judge.flagged)]

\* pipeline.Pipeline.runJudge with judge.Judge.Evaluate (pipeline.go:325-361,
\* judge.go:103-127): nil when the judge is disabled, an error when the call
\* or the parsing of its answer fails, the verdicts otherwise.
runJudge(cs, env) ==
    IF ~cfg.JudgeEnabled THEN [err |-> FALSE, result |-> NoJudgeResult]
    ELSE IF ~HasChanges(cs) THEN [err |-> FALSE, result |-> NoJudgeResult]
    ELSE IF env.judge.err THEN [err |-> TRUE, result |-> NoJudgeResult]
    ELSE [err |-> FALSE, result |-> JudgeResult(env.judge.rejected, env.judge.flagged)]

\* The records of a ChangeSet in the order the write loops visit them
\* (pipeline.go:160-171, 268-274).
allModels(cs) ==
    [i \in 1..Len(cs.New) |-> cs.New[i].Model]
    \o [i \in 1..Len(cs.Updated) |-> cs.Updated[i].Model]

\* The two write loops of syncProvider (pipeline.go:160-171): WriteModel for
\* every record until one returns an error.  k is the number of the call
\* within the pass, failAt the call whose os.WriteFile fails.
RECURSIVE writeAll(_, _, _, _)
writeAll(dir, models, k, failAt) ==
    IF models = << >> THEN [dir |-> dir, err |-> FALSE, wrote |-> {}]
    ELSE LET m == Head(models)
             w == WriteModel(dir[m.name], m, k = failAt)
         IN  IF w.err THEN [dir |-> dir, err |-> TRUE, wrote |-> {}]
             ELSE LET rest == writeAll([dir EXCEPT ![m.name] = w.file], Tail(models),
                                       k + 1, failAt)
                  IN  [rest EXCEPT !.wrote = @ \cup (IF w.wrote THEN {m.name} ELSE {})]

\* The record with the x_updater block updateMetadata sets (pipeline.go:277-280).
WithXUpdater(m, now) ==
    [m EXCEPT !.x_updater = [set |-> TRUE, last_verified_at |-> now,
                             sources |-> cfg.Sources]]

\* pipeline.Pipeline.updateMetadata (pipeline.go:264-283): WriteModel once more
\* for every record, now carrying x_updater; its errors are dropped.
RECURSIVE updateMetadata(_, _, _)
updateMetadata(dir, models, now) ==
    IF models = << >> THEN [dir |-> dir, wrote |-> {}]
    ELSE LET m == WithXUpdater(Head(models), now)
             w == WriteModel(dir[m.name], m, FALSE)
             rest == updateMetadata([dir EXCEPT ![m.name] = w.file], Tail(models), now)
         IN  [rest EXCEPT !.wrote = @ \cup (IF w.wrote THEN {m.name} ELSE {})]

\* The ChangeSet once updateMetadata has set XUpdater through the *Model
\* pointers it shares with it.
Stamped(cs, now) ==
    [cs EXCEPT !.New = [i \in 1..Len(@) |-> [@[i] EXCEPT !.Model = WithXUpdater(@, now)]],
               !.Updated = [i \in 1..Len(@) |-> [@[i] EXCEPT !.Model = WithXUpdater(@, now)]]]

\* The version the version step starts from, taken from the snapshot
\* LoadCatalog took instead of from the file.
readCachedVersion(file, cached) == cached

\* os.ReadFile(versionPath) in bumpVersion (pipeline.go:286-290): the version
\* step reads the file as it is on disk at that moment.
readVersionFile(file, cached) == file

\* pipeline.SyncResult (pipeline.go:53-62) as syncProvider initialises it.
SyncResult(p) ==
    [Provider |-> p, ChangeSet |-> NoChangeSet, HasChangeSet |-> FALSE,
     JudgeResult |-> NoJudgeResult, PRNumber |-> 0, PRDraft |-> FALSE,
     Skipped |-> FALSE, SkipReason |-> "", Error |-> ""]

\* What a pass leaves behind: its SyncResult, the provider's models directory,
\* the version file, the manifest, the version steps it made, the branches
\* and pull requests createPR made (pub), the step it ended in and the record
\* files it wrote.
Outcome(result, dir, version, mf, bumps, pub, stage, wrote) ==
    [result |-> result, dir |-> dir, version |-> version, manifest |-> mf,
     bumps |-> bumps, prs |-> pub.prs, branches |-> pub.branches,
     stage |-> stage, wrote |-> wrote]

\* pipeline.Pipeline.createPR with the GitOps it drives (createPR; git.go:22-86).
\* CreateBranch makes the branch at the commit HEAD points to and checks it
\* out, HEAD staying there afterwards; AddAll stages the whole worktree, tree;
\* Commit and Push follow, then the pull request is opened against the base
\* branch.  env.fault.kind = "pr" is a failure of one of these calls: with
\* env.fault.at = 0 before a branch exists, with 1 of PullRequests.Create
\* after the push.  A branch notes as parent the branch HEAD was on, 0 for
\* the base branch.
createPR(p, env, tree, draft) ==
    LET branch == [provider |-> p, parent |-> Len(git.branches), tree |-> tree]
        pr == [provider |-> p, number |-> Len(prs) + 1, draft |-> draft,
               branch |-> Len(git.branches) + 1]
    IN  IF env.fault.kind = "pr" /\ env.fault.at = 0
          THEN [err |-> TRUE, prs |-> << >>, branches |-> << >>]
        ELSE IF env.fault.kind = "pr"
          THEN [err |-> TRUE, prs |-> << >>, branches |-> <<branch>>]
        ELSE [err |-> FALSE, prs |-> <<pr>>, branches |-> <<branch>>]

\* The models directory of provider p as it is on disk.
modelsDir(p) == IF p \in DOMAIN disk THEN disk[p] ELSE << >>

\* A return of syncProvider before its write step: nothing on disk changed.
stay(p, result, stage) ==
    Outcome(result, modelsDir(p), versionTxt, manifest, << >>,
            [prs |-> << >>, branches |-> << >>], stage, {})

\* syncProvider from the version step on (pipeline.go:176-198): bumpVersion,
\* GenerateManifest and, with a token configured, createPR.  stamped is the
\* result whose ChangeSet updateMetadata has touched, um what updateMetadata
\* left on disk, bump what bumpVersion returned.
syncBumpAndPublish(p, env, stamped, hasNew, um, wrote, bump) ==
    LET entry == [before |-> versionTxt, hasNew |-> hasNew, err |-> bump.err,
                  after |-> IF bump.err THEN versionTxt ELSE bump.file]
        worktree == [disk EXCEPT ![p] = um.dir]
        mf == GenerateManifest(worktree, bump.file, clock)
        none == [prs |-> << >>, branches |-> << >>]
    IN  IF bump.err
          THEN Outcome([stamped EXCEPT !.Error = "bumping version"], um.dir, versionTxt,
                       manifest, <<entry>>, none, "version", wrote)
        ELSE IF ~cfg.HasToken
          THEN Outcome(stamped, um.dir, bump.file, mf, <<entry>>, none, "done", wrote)
        ELSE \* createPR(ctx, providerName, cs, result.PRDraft, result.JudgeResult)
             LET pr == createPR(p, env, [disk |-> worktree, version |-> bump.file,
                                         manifest |-> mf], stamped.PRDraft)
             IN  IF pr.err
                   THEN Outcome([stamped EXCEPT !.Error = "creating PR"], um.dir, bump.file,
                                mf, <<entry>>, pr, "pr", wrote)
                 ELSE Outcome([stamped EXCEPT !.PRNumber = pr.prs[1].number], um.dir,
                              bump.file, mf, <<entry>>, pr, "done", wrote)

\* syncProvider from the end of its write loops on (pipeline.go:160-174): w is
\* what the loops returned; updateMetadata follows when none failed.
syncWritten(p, env, judged, cs, w, um) ==
    IF w.err
      THEN Outcome([judged EXCEPT !.Error = "writing model"], w.dir, versionTxt,
                   manifest, << >>, [prs |-> << >>, branches |-> << >>], "write", w.wrote)
    ELSE syncBumpAndPublish(p, env, [judged EXCEPT !.ChangeSet = Stamped(cs, clock)],
                            Len(cs.New) > 0, um, w.wrote \cup um.wrote,
                            bumpVersion(readVersionFile(versionTxt, catalog.Version),
                                        Len(cs.New) > 0))

\* syncJudged without the dry-run return: the write loops run in a dry run too.
syncJudgedNoDryRun(p, env, found, risk, jr, applied) ==
    LET judged == [found EXCEPT !.ChangeSet = applied.cs, !.JudgeResult = jr.result,
                                !.PRDraft = risk.draft \/ applied.forceDraft]
    IN  IF ~jr.err /\ jr.result.set /\ ~HasChanges(applied.cs)
          THEN stay(p, [judged EXCEPT !.Skipped = TRUE,
                                      !.SkipReason = "all models rejected by judge"],
                    "rejected")
        ELSE LET w == writeAll(modelsDir(p), allModels(applied.cs), 1, env.fault.at)
             IN  syncWritten(p, env, judged, applied.cs, w,
                             IF w.err THEN [dir |-> w.dir, wrote |-> {}]
                             ELSE updateMetadata(w.dir, allModels(applied.cs), clock))

\* syncProvider from the judge's answer on (pipeline.go:136-171): applied is
\* the ChangeSet and forceDraft after ApplyToChangeSet.
syncJudged(p, env, found, risk, jr, applied) ==
    LET judged == [found EXCEPT !.ChangeSet = applied.cs, !.JudgeResult = jr.result,
                                !.PRDraft = risk.draft \/ applied.forceDraft]
    IN  IF ~jr.err /\ jr.result.set /\ ~HasChanges(applied.cs)
          THEN stay(p, [judged EXCEPT !.Skipped = TRUE,
                                      !.SkipReason = "all models rejected by judge"],
                    "rejected")
        ELSE IF cfg.DryRun THEN stay(p, judged, "dry run")
        ELSE \* a failed write loop returns before updateMetadata
             LET w == writeAll(modelsDir(p), allModels(applied.cs), 1, env.fault.at)
             IN  syncWritten(p, env, judged, applied.cs, w,
                             IF w.err THEN [dir |-> w.dir, wrote |-> {}]
                             ELSE updateMetadata(w.dir, allModels(applied.cs), clock))

\* syncProvider from the ChangeSet on (pipeline.go:109-145): the no-change
\* skip, assessRisk, validateChanges, runJudge and ApplyToChangeSet.
syncDiffed(p, env, cs0, risk, jr) ==
    LET found == [SyncResult(p) EXCEPT !.ChangeSet = cs0, !.HasChangeSet = TRUE]
    IN  IF ~HasChanges(cs0)
          THEN stay(p, [found EXCEPT !.Skipped = TRUE, !.SkipReason = "no changes"],
                    "unchanged")
        ELSE IF risk.blocked
          THEN stay(p, [found EXCEPT !.Skipped = TRUE, !.SkipReason = risk.reason],
                    "blocked")
        ELSE IF validateChanges(cs0)
          THEN stay(p, [found EXCEPT !.PRDraft = risk.draft,
                                     !.Error = "validation failed"], "validate")
        ELSE syncJudged(p, env, found, risk, jr,
                        IF jr.err \/ ~jr.result.set
                          THEN [cs |-> cs0, forceDraft |-> FALSE]
                          ELSE ApplyToChangeSet(cs0, jr.result, cfg.OnReject))

\* syncProvider from the return of discoverAndDiff on (pipeline.go:104-109).
syncDiscovered(p, env, dd) ==
    IF dd.err # "" THEN stay(p, [SyncResult(p) EXCEPT !.Error = dd.err], "discover")
    ELSE syncDiffed(p, env, dd.cs, assessRisk(dd.cs), runJudge(dd.cs, env))

\* pipeline.Pipeline.syncProvider (pipeline.go:100-199).
syncProvider(p, env) == syncDiscovered(p, env, discoverAndDiff(p, env, catalog))

\* ------------------------------------------- SpecWrite: one WriteModel call

\* Field values the stored and the incoming records are drawn from.
DisplayNames == {"", "D1", "D2"}
Families == {"", "f1", "f2"}
Statuses == {"", "stable", "beta"}
Costs == {NilCost, Cost(0, 0), Cost(5000, 15000), Cost(10000, 15000)}
MaxTokenValues == {0, 128000, 256000}
MaxCompletionValues == {0, 4096}
CapabilityLists == {<<>>, <<"chat">>, <<"chat", "vision">>}
InputLists == {<<>>, <<"text">>}

\* The records a source can report for the name "m".
IncomingModels ==
    {MkModel("m", d, f, s, c, mt, mc, caps, inp, <<"text">>) :
        d \in DisplayNames \ {"D1"}, f \in Families, s \in Statuses, c \in Costs,
        mt \in MaxTokenValues, mc \in MaxCompletionValues,
        caps \in CapabilityLists, inp \in InputLists}

\* doc with pair p inserted after position at of its top level.
InsertPair(doc, at, p) ==
    MapNode(SubSeq(doc.pairs, 1, at) \o <<p>> \o SubSeq(doc.pairs, at + 1, Len(doc.pairs)))

\* doc with pair p appended to the mapping under its top-level key k.
InsertNested(doc, k, p) ==
    MapNode([i \in 1..Len(doc.pairs) |->
                IF doc.pairs[i].key = k
                  THEN Pair(k, MapNode(Append(doc.pairs[i].val.pairs, p)))
                  ELSE doc.pairs[i]])

\* doc with its top-level pairs in the opposite order.
Reversed(doc) ==
    MapNode([i \in 1..Len(doc.pairs) |-> doc.pairs[Len(doc.pairs) + 1 - i]])

\* Record files a catalog holds for "m": written by the engine or by hand, with
\* or without cost and max_completion_tokens, in the engine's key order or
\* another one, and with a hand-added key at the top level or inside limits;
\* and a hand-written file that holds a status, a note and the name only.
StoredBases ==
    {MarshalModel(MkModel("m", "D1", "f1", "stable", c, 128000, mc,
                          <<"chat", "vision">>, <<"text">>, <<"text">>)) :
        c \in {NilCost, Cost(5000, 15000)}, mc \in MaxCompletionValues}

StoredDocs ==
    LET ordered == StoredBases \cup {Reversed(d) : d \in StoredBases}
    IN  ordered
        \cup {InsertPair(d, 4, Pair("custom_notes", StrNode("manual"))) : d \in ordered}
        \cup {InsertNested(d, "limits", Pair("context_note", StrNode("manual"))) : d \in ordered}
        \cup {MapNode(<< Pair("status", StrNode("stable")),
                         Pair("custom_notes", StrNode("manual")),
                         Pair("name", StrNode("m")) >>)}

WriteIdle == stored = NoFile /\ incoming = ZeroModel /\ written = << >>

InitWrite ==
    /\ stored \in {NoFile, BadFile} \cup {YamlFile(d) : d \in StoredDocs}
    /\ incoming \in IncomingModels
    /\ written = << >>
    /\ SemverIdle
    /\ DiffIdle
    /\ PipelineIdle
    /\ CallsIdle

\* One call of WriteModel on the file at the record's path.
WriteModelStep ==
    /\ written = << >>
    /\ \E ioFails \in BOOLEAN :
         written' = Append(written, WriteModel(stored, incoming, ioFails))
    /\ UNCHANGED <<stored, incoming>>
    /\ UNCHANGED <<semverVars, diffVars, pipelineVars, callVars>>

SpecWrite == InitWrite /\ [][WriteModelStep]_vars

\* ------------------------------------------------ SpecDiff: one Compute call

\* The records the diff engine is run on: a base record and records that
\* differ from it in one or two attributes.
DiffVariant(name, k) ==
    LET mk(f, s, c, mt, caps, d) ==
            MkModel(name, d, f, s, c, mt, 0, caps, <<"text">>, <<"text">>)
        mkIn(f, s, c, mt, caps, d, inp) ==
            MkModel(name, d, f, s, c, mt, 0, caps, inp, <<"text">>)
    IN  CASE k = 1 -> mk("f1", "stable", Cost(5000, 15000), 100000, <<"chat">>, "D1")
          [] k = 2 -> mk("f1", "stable", NilCost, 0, <<"chat">>, "D1")
          [] k = 3 -> mk("", "stable", Cost(5000, 15000), 100000, <<"chat">>, "D1")
          [] k = 4 -> mk("f1", "beta", Cost(0, 0), 100000, <<"chat">>, "D1")
          [] k = 5 -> mk("f1", "stable", Cost(5000, 15000), 110000, <<"chat">>, "D1")
          [] k = 6 -> mk("f1", "stable", Cost(5000, 15000), 128000, <<"chat">>, "D2")
          [] k = 7 -> mk("f1", "stable", Cost(6500, 15000), 100000, <<"chat">>, "D1")
          [] k = 8 -> mk("f2", "stable", Cost(5000, 15000), 100000, <<"vision", "chat">>, "D1")
          [] k = 9 -> mkIn("f1", "stable", Cost(5000, 15000), 100000, <<"chat">>, "D1",
                           <<"text", "image">>)
          [] k = 10 -> mk("f1", "stable", Cost(5000, 30000), 100000, <<"chat">>, "D1")

StoredVariants == 1..3
DiscoveredVariants == 1..10

\* The maps of stored records: any subset of the names, each with one variant.
ExistingMaps ==
    UNION { { [n \in D |-> DiffVariant(n, v[n])] : v \in [D -> StoredVariants] } :
            D \in SUBSET ModelNames }

\* The discovery results: at most MaxDiscovered records with distinct names
\* (deduplicateDiscovered keeps one record per name).
DiscoveredLists ==
    UNION { { [i \in 1..len |-> Discovered(DiffVariant(ns[i], v[i]), "api")] :
              ns \in {o \in [1..len -> ModelNames] :
                        \A i, j \in 1..len : i # j => o[i] # o[j]},
              v \in [1..len -> DiscoveredVariants] } :
            len \in 0..MaxDiscovered }

InitDiff ==
    /\ diffExisting \in ExistingMaps
    /\ diffDiscovered \in DiscoveredLists
    /\ diffOpts \in {[TrackDisplayName |-> t] : t \in BOOLEAN}
    /\ changeSets = << >>
    /\ SemverIdle
    /\ WriteIdle
    /\ PipelineIdle
    /\ CallsIdle

\* One call of diff.Compute; the map is iterated in some order.
ComputeStep ==
    /\ Len(changeSets) < MaxComputeCalls
    /\ \E order \in IterOrders(DOMAIN diffExisting) :
         changeSets' = Append(changeSets,
                              Compute("pa", diffDiscovered, diffExisting, diffOpts, order))
    /\ UNCHANGED <<diffExisting, diffDiscovered, diffOpts>>
    /\ UNCHANGED <<semverVars, writeVars, pipelineVars, callVars>>

SpecDiff == InitDiff /\ [][ComputeStep]_vars

\* ---------------------------------------------------- SpecSemver: version step

VerAlphabet == {"0", "1", "9", "x", "."}

VersionStrings == UNION {[1..n -> VerAlphabet] : n \in 0..MaxVerLen}

InitSemver ==
    /\ versionTxt \in {s \o <<"\n">> : s \in VersionStrings}
    /\ bumpLog = <<>>
    /\ WriteIdle
    /\ DiffIdle
    /\ PipelineIdle
    /\ CallsIdle

\* One run of the version step of a pass (pipeline.go:176-180).
BumpVersionStep ==
    /\ bumpLog = <<>>
    /\ \E hasNew \in BOOLEAN :
         LET r == bumpVersion(versionTxt, hasNew)
         IN  /\ versionTxt' = r.file
             /\ bumpLog' = Append(bumpLog, [before |-> versionTxt, hasNew |-> hasNew,
                                            err |-> r.err, after |-> r.file])
             /\ UNCHANGED <<writeVars, diffVars, pipelineVars, callVars>>

SpecSemver == InitSemver /\ [][BumpVersionStep]_vars

\* ------------------------------------------------------- Spec: pipeline.Sync

\* Most syncProvider calls of one behaviour.
MaxPasses == 2

\* Most runs of Diff in one behaviour.
MaxDiffRuns == 1

\* The record file the engine wrote for variant k of the name.
StoredFile(name, k) == YamlFile(MarshalModel(DiffVariant(name, k)))

\* The models directories of the two providers: pa holds up to two records,
\* pb one dated snapshot, and at most one file on the disk is not parseable.
Dir(f1, f2, f3) ==
    [n \in ModelNames |-> CASE n = "a-v1" -> f1 [] n = "a-v2" -> f2 [] OTHER -> f3]

GoodDisks ==
    {[p \in Registered |->
         IF p = "pa" THEN Dir(f1, f2, NoFile)
         ELSE Dir(NoFile, NoFile, StoredFile("b-2024", 1))] :
        f1 \in {NoFile, StoredFile("a-v1", 1)}, f2 \in {NoFile, StoredFile("a-v2", 1)}}

BadDisks ==
    { [p \in Registered |->
          IF p = "pa" THEN Dir(BadFile, NoFile, NoFile)
          ELSE Dir(NoFile, NoFile, StoredFile("b-2024", 1))],
      [p \in Registered |->
          IF p = "pa" THEN Dir(StoredFile("a-v1", 1), NoFile, NoFile)
          ELSE Dir(NoFile, NoFile, BadFile)] }

\* What the adapters return: for pa up to MaxDiscovered records with distinct
\* names, or the same name from the API (without cost) and from the docs.
PipelineVariants == {1, 2, 4, 6, 8, 9}

FeedsOf(variants) ==
    UNION { { [i \in 1..len |-> Discovered(DiffVariant(ns[i], v[i]), "api")] :
              ns \in {o \in [1..len -> {"a-v1", "a-v2"}] :
                        \A i, j \in 1..len : i # j => o[i] # o[j]},
              v \in [1..len -> variants] } :
            len \in 0..MaxDiscovered }

TwoSourceFeeds ==
    LET api == Discovered([DiffVariant("a-v1", 1) EXCEPT !.cost = NilCost,
                                                         !.status = "beta"], "api")
        docs == Discovered(DiffVariant("a-v1", 7), "docs")
    IN  {<<api, docs>>, <<docs, api>>}

FeedsA == FeedsOf(PipelineVariants) \cup TwoSourceFeeds

FeedsB == {<< >>, <<Discovered(DiffVariant("b-2024", 4), "api")>>}

Config(providers, dryRun, track, judge, onReject, health, token) ==
    [Providers |-> providers, Sources |-> <<"api", "docs">>, DryRun |-> dryRun,
     TrackDisplayName |-> track, JudgeEnabled |-> judge, OnReject |-> onReject,
     HealthEnabled |-> health, ThresholdPct |-> 90, HasToken |-> token]

Feed(a, b) == [p \in Registered |-> IF p = "pa" THEN a ELSE b]

ValidVersionFile == <<"1", ".", "2", ".", "9", "\n">>
ShortVersionFile == <<"1", ".", "2", "\n">>

Scenario(c, d, f, v) == [cfg |-> c, disk |-> d, feed |-> f, version |-> v]

\* The catalogs, feeds and configurations a behaviour starts from: the
\* defaults with one provider (any disk, either version file) and with two
\* providers, a provider without adapter, a dry run, and the judge with
\* either on_reject behaviour.
Scenarios ==
    { Scenario(Config(<<"pa">>, FALSE, FALSE, FALSE, "draft", TRUE, FALSE),
               d, Feed(a, << >>), v) :
        d \in GoodDisks \cup BadDisks, a \in FeedsA,
        v \in {ValidVersionFile, ShortVersionFile} }
    \cup
    { Scenario(Config(<<"pa", "pb">>, FALSE, FALSE, FALSE, "draft", TRUE, FALSE),
               d, Feed(a, b), ValidVersionFile) :
        d \in GoodDisks \cup BadDisks, a \in FeedsA, b \in FeedsB }
    \cup
    { Scenario(Config(<<"px", "pb">>, FALSE, FALSE, FALSE, "draft", TRUE, TRUE),
               d, Feed(<< >>, b), ValidVersionFile) :
        d \in GoodDisks \cup BadDisks, b \in FeedsB }
    \cup
    { Scenario(Config(<<"pa">>, TRUE, TRUE, FALSE, "draft", TRUE, TRUE),
               d, Feed(a, << >>), ValidVersionFile) :
        d \in GoodDisks, a \in FeedsA }
    \cup
    { Scenario(Config(<<"pa", "pb">>, FALSE, FALSE, TRUE, "exclude", FALSE, TRUE),
               d, Feed(a, b), ValidVersionFile) :
        d \in GoodDisks, a \in FeedsOf({4, 8}), b \in FeedsB }
    \cup
    { Scenario(Config(<<"pa">>, FALSE, TRUE, TRUE, "draft", TRUE, FALSE),
               d, Feed(a, << >>), ValidVersionFile) :
        d \in GoodDisks, a \in FeedsOf({4, 8}) }

\* What the outside world can do to a pass: nothing, a failing liveness
\* probe, a failing Discover, a failing os.WriteFile at one of the WriteModel
\* calls, a failing PR creation (before the branch exists or after the push).
\* The probe is only made with health checks enabled and the PR only with a
\* token configured.
Faults ==
    {f \in {[kind |-> k, at |-> 0] : k \in {"none", "health", "discover", "pr"}}
            \cup {[kind |-> "write", at |-> i] : i \in 1..MaxDiscovered}
            \cup {[kind |-> "pr", at |-> 1]} :
        /\ f.kind = "health" => cfg.HealthEnabled
        /\ f.kind = "pr" => cfg.HasToken}

NoJudge == [err |-> FALSE, rejected |-> {}, flagged |-> FALSE]

\* What the judge can answer: a failure, or verdicts rejecting no record, one
\* record or all, with or without a flag.
JudgeOutcomes ==
    {[err |-> TRUE, rejected |-> {}, flagged |-> FALSE]}
    \cup {[err |-> FALSE, rejected |-> r, flagged |-> f] :
            r \in {{}, {"a-v1"}, ModelNames}, f \in BOOLEAN}

Init ==
    /\ \E sc \in Scenarios :
           /\ cfg = sc.cfg
           /\ disk = sc.disk
           /\ feed = sc.feed
           /\ versionTxt = sc.version
    /\ manifest = GenerateManifest(disk, versionTxt, 0)
    /\ git = [base |-> [disk |-> disk, version |-> versionTxt, manifest |-> manifest],
              branches |-> << >>]
    /\ diffRuns = << >>
    /\ bumpLog = << >>
    /\ catalog = NoCatalog
    /\ results = << >>
    /\ cursor = 0
    /\ clock = 1
    /\ prs = << >>
    /\ passes = << >>
    /\ syncs = << >>
    /\ WriteIdle
    /\ DiffIdle
    /\ CallsIdle

\* Sync, LoadCatalog succeeding (pipeline.go:65-70).
SyncBegin ==
    /\ cursor = 0
    /\ Len(passes) + Len(cfg.Providers) <= MaxPasses
    /\ diffRuns = << >>
    /\ ~LoadFails(disk)
    /\ catalog' = Load(disk, versionTxt)
    /\ results' = << >>
    /\ cursor' = 1
    /\ UNCHANGED <<cfg, disk, manifest, feed, clock, prs, git, diffRuns, passes, syncs>>
    /\ UNCHANGED <<semverVars, writeVars, diffVars, callVars>>

\* Sync, LoadCatalog failing (pipeline.go:66-68): Sync returns the error and
\* no results.
SyncLoadError ==
    /\ cursor = 0
    /\ Len(syncs) < MaxPasses
    /\ diffRuns = << >>
    /\ LoadFails(disk)
    /\ syncs' = Append(syncs, [err |-> TRUE, results |-> << >>])
    /\ UNCHANGED <<cfg, disk, manifest, feed, catalog, results, cursor, clock, prs, git,
                   diffRuns, passes>>
    /\ UNCHANGED <<semverVars, writeVars, diffVars, callVars>>

\* What a pass log entry keeps of the catalog directory.
Snapshot(dir, version, mf, prCount) ==
    [dir |-> dir, version |-> version, manifest |-> mf, prs |-> prCount]

\* One turn of the loop of Sync (pipeline.go:72-77): syncProvider for the
\* provider at the cursor; after the last provider Sync returns the results.
\* The log entry notes in judgeErr whether the pass got to runJudge
\* (pipeline.go:136) and the judge failed.
SyncProviderStep ==
    /\ cursor \in 1..Len(cfg.Providers)
    /\ LET p == cfg.Providers[cursor]
           keys == IF p \in DOMAIN catalog.Providers
                     THEN DOMAIN catalog.Providers[p] ELSE {}
       IN  \E fault \in Faults,
              judge \in (IF cfg.JudgeEnabled THEN JudgeOutcomes ELSE {NoJudge}),
              order \in IterOrders(keys) :
             \E o \in {syncProvider(p, [fault |-> fault, judge |-> judge, order |-> order])} :
             LET all == Append(results, o.result)
                 last == cursor = Len(cfg.Providers)
             IN  /\ disk' = IF p \in DOMAIN disk THEN [disk EXCEPT ![p] = o.dir] ELSE disk
                 /\ versionTxt' = o.version
                 /\ manifest' = o.manifest
                 /\ bumpLog' = bumpLog \o o.bumps
                 /\ prs' = prs \o o.prs
                 /\ git' = [git EXCEPT !.branches = @ \o o.branches]
                 /\ clock' = clock + 1
                 /\ results' = all
                 /\ cursor' = IF last THEN 0 ELSE cursor + 1
                 /\ syncs' = IF last THEN Append(syncs, [err |-> FALSE, results |-> all])
                             ELSE syncs
                 /\ passes' = Append(passes,
                        [provider |-> p, sync |-> Len(syncs) + 1,
                         before |-> Snapshot(IF p \in DOMAIN disk THEN disk[p] ELSE << >>,
                                             versionTxt, manifest, Len(prs)),
                         after |-> Snapshot(o.dir, o.version, o.manifest,
                                            Len(prs) + Len(o.prs)),
                         stage |-> o.stage, wrote |-> o.wrote, result |-> o.result,
                         judgeErr |-> /\ cfg.JudgeEnabled /\ judge.err
                                      /\ o.stage \in {"rejected", "dry run", "write",
                                                       "version", "pr", "done"}])
    /\ UNCHANGED <<cfg, feed, catalog, diffRuns>>
    /\ UNCHANGED <<writeVars, diffVars, callVars>>

\* pipeline.Pipeline.Diff (pipeline.go:80-98): LoadCatalog, then discoverAndDiff
\* for every configured provider; a provider whose discoverAndDiff fails is
\* logged and left out.  Every provider's call meets its own liveness probe,
\* Discover outcome and map iteration order.  A behaviour runs Diff before
\* its passes are used up, and ends with it.
Diff ==
    /\ cursor = 0
    /\ Len(diffRuns) < MaxDiffRuns
    /\ Len(passes) < MaxPasses
    /\ IF LoadFails(disk)
         THEN /\ diffRuns' = Append(diffRuns, [err |-> TRUE, changesets |-> << >>])
              /\ UNCHANGED catalog
         ELSE \E cat \in {Load(disk, versionTxt)} :
                LET n == Len(cfg.Providers)
                    keys(i) == IF cfg.Providers[i] \in DOMAIN cat.Providers
                                 THEN DOMAIN cat.Providers[cfg.Providers[i]] ELSE {}
                    probes == {f \in Faults : f.kind \in {"none", "health", "discover"}}
                    orders == {o \in [1..n -> UNION {IterOrders(keys(i)) : i \in 1..n}] :
                                 \A i \in 1..n : o[i] \in IterOrders(keys(i))}
                IN  \E fault \in [1..n -> probes], order \in orders :
                      LET dd == [i \in 1..n |->
                                    discoverAndDiff(cfg.Providers[i],
                                                    [fault |-> fault[i], judge |-> NoJudge,
                                                     order |-> order[i]], cat)]
                          ok == SelectSeq(dd, LAMBDA r : r.err = "")
                      IN  /\ catalog' = cat
                          /\ diffRuns' = Append(diffRuns,
                                 [err |-> FALSE,
                                  changesets |-> [i \in 1..Len(ok) |-> ok[i].cs]])
    /\ UNCHANGED <<cfg, disk, manifest, feed, results, cursor, clock, prs, git, passes,
                   syncs>>
    /\ UNCHANGED <<semverVars, writeVars, diffVars, callVars>>

Next ==
    \/ SyncBegin
    \/ SyncLoadError
    \/ SyncProviderStep
    \/ Diff

Spec == Init /\ [][Next]_vars

\* ------------------------------------------------------- claims: version step

\* A part made of decimal digits only, at least one.
IsNumericPart(p) == p # <<>> /\ \A i \in 1..Len(p) : p[i] \in Digits

\* Exactly three numeric components separated by dots.
ValidVersion(v) ==
    /\ Len(SelectSeq(v, LAMBDA c : c = ".")) = 2
    /\ LET parts == Split(v, ".")
       IN  Len(parts) = 3 /\ \A i \in 1..3 : IsNumericPart(parts[i])

\* Positional decimal value of a numeric part.
RECURSIVE DecVal(_)
DecVal(p) ==
    IF p = <<>> THEN 0 ELSE 10 * DecVal(SubSeq(p, 1, Len(p) - 1)) + DigitVal(p[Len(p)])

VersionTuple(v) ==
    LET parts == Split(v, ".") IN <<DecVal(parts[1]), DecVal(parts[2]), DecVal(parts[3])>>

LexLess(a, b) ==
    \/ a[1] < b[1]
    \/ a[1] = b[1] /\ a[2] < b[2]
    \/ a[1] = b[1] /\ a[2] = b[2] /\ a[3] < b[3]

LexLeq(a, b) == a = b \/ LexLess(a, b)

\* The stored version of a logged version step, as bumpVersion reads it.
Stored(e) == TrimSpace(e.before)

\* C7 (as stated): for every valid version v, Advance(v, true) >
\* Advance(v, false) >= v lexicographically, and the step decreases none of
\* the three components.
C7_NoComponentDecreases ==
    \A i \in 1..Len(bumpLog) :
        LET e == bumpLog[i] IN
        ValidVersion(Stored(e)) =>
            /\ ~e.err
            /\ ValidVersion(TrimSpace(e.after))
            /\ LexLess(VersionTuple(bumpSemver(Stored(e), FALSE).out),
                       VersionTuple(bumpSemver(Stored(e), TRUE).out))
            /\ LexLeq(VersionTuple(Stored(e)), VersionTuple(bumpSemver(Stored(e), FALSE).out))
            /\ \A k \in 1..3 :
                   VersionTuple(TrimSpace(e.after))[k] >= VersionTuple(Stored(e))[k]

\* C7 (amended): for every valid version v, Advance(v, true) >
\* Advance(v, false) > v lexicographically; the step never decreases the
\* major or the minor component, and it lowers the patch component only by
\* resetting it to 0 when there are new records.
C7_VersionMonotone ==
    \A i \in 1..Len(bumpLog) :
        LET e == bumpLog[i]
            v == Stored(e)
        IN  ValidVersion(v) =>
              LET withNew == bumpSemver(v, TRUE)
                  noNew   == bumpSemver(v, FALSE)
                  after   == VersionTuple(TrimSpace(e.after))
              IN  /\ ~e.err /\ ~withNew.err /\ ~noNew.err
                  /\ ValidVersion(withNew.out) /\ ValidVersion(noNew.out)
                  /\ ValidVersion(TrimSpace(e.after))
                  /\ LexLess(VersionTuple(noNew.out), VersionTuple(withNew.out))
                  /\ LexLess(VersionTuple(v), VersionTuple(noNew.out))
                  /\ LexLess(VersionTuple(v), after)
                  /\ after[1] >= VersionTuple(v)[1]
                  /\ after[2] >= VersionTuple(v)[2]
                  /\ (after[3] < VersionTuple(v)[3] => e.hasNew /\ after[3] = 0)

\* C7 witness: a version step with new records ran on a valid version whose
\* patch component was positive, and reset it.
C7_Witness ==
    \E i \in 1..Len(bumpLog) :
        /\ ValidVersion(Stored(bumpLog[i]))
        /\ bumpLog[i].hasNew
        /\ VersionTuple(Stored(bumpLog[i]))[3] > 0
        /\ VersionTuple(TrimSpace(bumpLog[i].after))[3] = 0

\* C8: for every valid version MAJOR.MINOR.PATCH the step writes
\* MAJOR.(MINOR+1).0 when the pass has new records and MAJOR.MINOR.(PATCH+1)
\* otherwise; the major component is never changed.
C8_BumpRule ==
    \A i \in 1..Len(bumpLog) :
        LET e == bumpLog[i]
            v == VersionTuple(Stored(e))
        IN  ValidVersion(Stored(e)) =>
              /\ ~e.err
              /\ ValidVersion(TrimSpace(e.after))
              /\ VersionTuple(TrimSpace(e.after)) =
                     IF e.hasNew THEN <<v[1], v[2] + 1, 0>> ELSE <<v[1], v[2], v[3] + 1>>

\* C8 witness: both kinds of step ran on a valid version with a carry into a
\* second digit (9 -> 10).
C8_Witness ==
    \E i \in 1..Len(bumpLog) :
        /\ ValidVersion(Stored(bumpLog[i]))
        /\ ~bumpLog[i].err
        /\ 10 \in {VersionTuple(TrimSpace(bumpLog[i].after))[k] : k \in 2..3}

\* C9: a stored version that is not exactly three numeric components makes
\* the version step fail and leaves the version file unchanged.
C9_MalformedVersionRejected ==
    \A i \in 1..Len(bumpLog) :
        LET e == bumpLog[i] IN
        ~ValidVersion(Stored(e)) => e.err /\ e.after = e.before

\* ------------------------------------------------------------ claims: pipeline

\* The fields of a FieldChange that belong to the cost of a record.
CostFields == {"cost", "cost.input_per_1k", "cost.output_per_1k"}

\* The record file of name n in a models directory, decoded.
RecordIn(dir, n) == UnmarshalModel(dir[n].doc)

\* C1: when a non-dry-run pass of a provider that ended without error is
\* followed by another pass of the same provider on the same discovered input
\* with nothing written in between, the second pass modifies no record file
\* and does not advance the version file.
C1_SecondRunChangesNothing ==
    \A i \in 1..(Len(passes) - 1) :
        LET first == passes[i]
            second == passes[i + 1]
        IN  (/\ ~cfg.DryRun /\ ~cfg.JudgeEnabled
             /\ first.provider = second.provider
             /\ first.result.Error = "" /\ second.result.Error = ""
             /\ second.before = first.after)
            => /\ second.after.dir = second.before.dir
               /\ second.after.version = second.before.version

\* C2: for every stored record with a non-zero cost for which the source
\* reports cost {0, 0}, the cost on disk after the pass is the cost before it,
\* and the record's Updated entry lists no cost field.
C2_ZeroCostNeverOverwrites ==
    \A i \in 1..Len(passes) :
        LET e == passes[i]
            found == IF e.provider \in Registered
                       THEN deduplicateDiscovered(feed[e.provider]) ELSE << >>
            cs == e.result.ChangeSet
        IN  \A k \in 1..Len(found) :
                LET n == found[k].name IN
                (/\ found[k].cost.set /\ zeroCost(found[k].cost)
                 /\ e.before.dir[n].state = "yaml"
                 /\ RecordIn(e.before.dir, n).cost.set
                 /\ ~zeroCost(RecordIn(e.before.dir, n).cost))
                => /\ e.after.dir[n].state = "yaml"
                   /\ RecordIn(e.after.dir, n).cost = RecordIn(e.before.dir, n).cost
                   /\ \A u \in 1..Len(cs.Updated) :
                          cs.Updated[u].Name = n =>
                              \A c \in 1..Len(cs.Updated[u].Changes) :
                                  cs.Updated[u].Changes[c].field \notin CostFields

\* C6: every Sync hands back a SyncResult for every configured provider,
\* whatever error another provider, or a record file of another provider, runs
\* into.
C6_EveryGroupGetsResult ==
    \A k \in 1..Len(syncs) :
        \A i \in 1..Len(cfg.Providers) :
            \E j \in 1..Len(syncs[k].results) :
                syncs[k].results[j].Provider = cfg.Providers[i]

\* The version a version file holds, as a tuple.
VersionOf(file) == VersionTuple(TrimSpace(file))

\* Advance of the specification on tuples.
Advanced(v, hasNew) == IF hasNew THEN <<v[1], v[2] + 1, 0>> ELSE <<v[1], v[2], v[3] + 1>>

\* A pass that produced changes: not a dry run, its ChangeSet (after the
\* judge) has changes, and it got through validation and its write step.
ProducedChange(e) ==
    /\ ~cfg.DryRun
    /\ e.result.HasChangeSet
    /\ HasChanges(e.result.ChangeSet)
    /\ ~e.result.Skipped
    /\ e.result.Error \notin {"validation failed", "writing model"}

KnownTopKeys ==
    {"name", "display_name", "family", "status", "cost", "limits", "capabilities",
     "modalities", "x_updater"}

KnownNestedKeys(k) ==
    CASE k = "cost" -> {"input_per_1k", "output_per_1k"}
      [] k = "limits" -> {"max_tokens", "max_completion_tokens"}
      [] k = "modalities" -> {"input", "output"}
      [] k = "x_updater" -> {"last_verified_at", "sources"}
      [] OTHER -> {}

\* Pair i of the mapping before is still in the mapping after, with its value.
PairKept(before, after, i) ==
    /\ HasKey(after, before.pairs[i].key)
    /\ Get(after, before.pairs[i].key) = before.pairs[i].val

\* Every key of the document before that the engine does not know, at the top
\* level or inside one of the engine's own mappings, is in the document after
\* with the value it had.
ManualKeysKept(before, after) ==
    \A i \in 1..Len(before.pairs) :
        LET k == before.pairs[i].key IN
        IF k \notin KnownTopKeys THEN PairKept(before, after, i)
        ELSE \A j \in 1..Len(before.pairs[i].val.pairs) :
                 before.pairs[i].val.pairs[j].key \notin KnownNestedKeys(k) =>
                     /\ HasKey(after, k)
                     /\ PairKept(before.pairs[i].val, Get(after, k), j)

\* A WriteModel call that merged into an existing, parseable record file.
Merged(w) == stored.state = "yaml" /\ ~w.err /\ w.file.state = "yaml"

\* C3: a manually added key the engine does not know is still present with
\* its stored value after WriteModel merged an incoming record into the file.
C3_ManualKeysSurvive ==
    \A i \in 1..Len(written) :
        Merged(written[i]) => ManualKeysKept(stored.doc, written[i].file.doc)

\* Every key of the document before, top-level or nested one level, is a key
\* of the document after.
NoKeyDeleted(before, after) ==
    \A i \in 1..Len(before.pairs) :
        LET k == before.pairs[i].key IN
        /\ HasKey(after, k)
        /\ \A j \in 1..Len(before.pairs[i].val.pairs) :
               HasKey(Get(after, k), before.pairs[i].val.pairs[j].key)

\* Every field the incoming record leaves absent has the value after that it
\* had before.
AbsentFieldsKept(b, a, d) ==
    /\ d.display_name = "" => a.display_name = b.display_name
    /\ d.family = "" => a.family = b.family
    /\ d.status = "" => a.status = b.status
    /\ d.limits.max_tokens = 0 => a.limits.max_tokens = b.limits.max_tokens
    /\ d.limits.max_completion_tokens = 0 =>
           a.limits.max_completion_tokens = b.limits.max_completion_tokens
    /\ d.capabilities = << >> => a.capabilities = b.capabilities
    /\ d.modalities.input = << >> => a.modalities.input = b.modalities.input
    /\ d.modalities.output = << >> => a.modalities.output = b.modalities.output

\* C4: WriteModel on an existing record file never deletes a stored key, and a
\* field the incoming record leaves absent keeps its stored value.
C4_OnlySuppliedOverwritten ==
    \A i \in 1..Len(written) :
        Merged(written[i]) =>
            /\ NoKeyDeleted(stored.doc, written[i].file.doc)
            /\ AbsentFieldsKept(UnmarshalModel(stored.doc),
                                UnmarshalModel(written[i].file.doc), incoming)

\* --------------------------------------------------------- claims: diff engine

Names(changes) == {changes[i].Name : i \in 1..Len(changes)}

OldNames(renames) == {renames[i].OldName : i \in 1..Len(renames)}

\* The stored records absent from discovery whose name is not a dated snapshot.
Disappeared == {n \in DOMAIN diffExisting :
                  /\ \A i \in 1..Len(diffDiscovered) : diffDiscovered[i].name # n
                  /\ ~looksLikeDatedSnapshot(n)}

\* C5: in every ChangeSet returned by Compute no name is both the OldName of a
\* RenamePair and a DeprecationCandidate, and every disappeared stored record
\* that is not a dated snapshot is in exactly one of the two.
C5_RenameExclusivity ==
    \A i \in 1..Len(changeSets) :
        LET cs == changeSets[i] IN
        /\ OldNames(cs.PossibleRenames) \cap Names(cs.DeprecationCandidates) = {}
        /\ OldNames(cs.PossibleRenames) \cup Names(cs.DeprecationCandidates) = Disappeared
        /\ \A n \in Disappeared :
               Cardinality({j \in 1..Len(cs.DeprecationCandidates) :
                               cs.DeprecationCandidates[j].Name = n})
                 = (IF n \in OldNames(cs.PossibleRenames) THEN 0 ELSE 1)

\* C5 witness: one ChangeSet holds a rename pair and, for another disappeared
\* record, a deprecation candidate.
C5_Witness ==
    \E i \in 1..Len(changeSets) :
        /\ changeSets[i].PossibleRenames # << >>
        /\ changeSets[i].DeprecationCandidates # << >>

\* C12: two calls of Compute on the same discovered records, the same map of
\* stored records and the same options return the same ChangeSet, the order
\* of its lists included.
C12_ComputeDeterministic ==
    \A i, j \in 1..Len(changeSets) : changeSets[i] = changeSets[j]

\* The relative difference of new against old is at most 10%, at most 20%.
WithinTenPercent(new, old) == 10 * Abs(new - old) <= old
WithinTwentyPercent(new, old) == 5 * Abs(new - old) <= old

\* The rename rule as stated: same non-empty family, limits within 10% when
\* both records define one, cost figures within 20% when both define cost.
RenameExpected(newM, oldM) ==
    /\ newM.family = oldM.family
    /\ newM.family # ""
    /\ (oldM.limits.max_tokens > 0 /\ newM.limits.max_tokens > 0)
         => WithinTenPercent(newM.limits.max_tokens, oldM.limits.max_tokens)
    /\ (oldM.cost.set /\ newM.cost.set)
         => /\ WithinTwentyPercent(newM.cost.input_per_1k, oldM.cost.input_per_1k)
            /\ WithinTwentyPercent(newM.cost.output_per_1k, oldM.cost.output_per_1k)

\* C15: Compute emits the pair (old, new) for a disappeared stored record and
\* a New record exactly when the two satisfy the rename rule.
C15_RenamePairIffSimilar ==
    \A i \in 1..Len(changeSets) :
        LET cs == changeSets[i] IN
        \A n \in Disappeared : \A j \in 1..Len(cs.New) :
            (\E r \in 1..Len(cs.PossibleRenames) :
                 /\ cs.PossibleRenames[r].OldName = n
                 /\ cs.PossibleRenames[r].NewName = cs.New[j].Name)
              <=> RenameExpected(cs.New[j].Model, diffExisting[n])

\* ------------------------------------------------ SpecRisk: one assessRisk call

\* Most New plus Updated entries, and most DeprecationCandidates, of the
\* ChangeSets handed to assessRisk.
MaxChanged == 26
MaxCandidates == 4

\* The ChangeSet handed to assessRisk has any numbers of entries up to the
\* bounds; the first Updated entry carries no change about cost, or one cost
\* field going from old to new (in 1e-6 dollars), or a cost appearing where
\* none was stored, or a limit trebling, the other entries a status change.
InitRisk ==
    /\ LET statusChange == FieldChange("status", StrNode("stable"), StrNode("beta"))
           changeLists ==
               { << statusChange >>,
                 << FieldChange("cost", NullNode, CostNode(Cost(5000, 15000))) >>,
                 << FieldChange("limits.max_tokens", NumNode(100000), NumNode(300000)) >>,
                 << FieldChange("cost.input_per_1k", NumNode(5000), NumNode(6000)),
                    FieldChange("cost.output_per_1k", NumNode(15000), NumNode(45000)) >> }
               \cup { << FieldChange(f, NumNode(c[1]), NumNode(c[2])) >> :
                        f \in {"cost.input_per_1k", "cost.output_per_1k"},
                        c \in { <<5000, 6000>>, <<5000, 6500>>, <<5000, 7000>>,
                                <<5000, 10000>>, <<5000, 4000>>, <<5000, 3000>>,
                                <<0, 5000>> } }
       IN  \E nNew \in 0..MaxChanged, nUpdated \in 0..MaxChanged,
              nCandidates \in 0..MaxCandidates, changes \in changeLists :
             /\ nNew + nUpdated <= MaxChanged
             /\ riskInput =
                  [Provider |-> "pa",
                   New |-> [i \in 1..nNew |-> ModelChange("a-v1", DiffVariant("a-v1", 1))],
                   Updated |-> [i \in 1..nUpdated |->
                                   [Name |-> "a-v1", Model |-> DiffVariant("a-v1", 1),
                                    Changes |-> IF i = 1 THEN changes
                                                ELSE << statusChange >>]],
                   DeprecationCandidates |->
                       [i \in 1..nCandidates |->
                           ModelChange("a-v2", DiffVariant("a-v2", 1))],
                   PossibleRenames |-> << >>,
                   Unchanged |-> 0]
    /\ riskSeen = << >>
    /\ SemverIdle
    /\ WriteIdle
    /\ DiffIdle
    /\ PipelineIdle
    /\ snapshotName = << >> /\ snapshotSeen = << >>
    /\ pathName = << >> /\ pathsTouched = << >>

\* One call of assessRisk.
AssessRiskStep ==
    /\ riskSeen = << >>
    /\ riskSeen' = Append(riskSeen, assessRisk(riskInput))
    /\ UNCHANGED <<riskInput, snapshotName, snapshotSeen, pathName, pathsTouched>>
    /\ UNCHANGED <<semverVars, writeVars, diffVars, pipelineVars>>

SpecRisk == InitRisk /\ [][AssessRiskStep]_vars

\* ---------------------------------------------------------------- Claims: risk

\* The FieldChange fields that carry one price.
PriceFields == {"cost.input_per_1k", "cost.output_per_1k"}

\* Some cost-field change of the ChangeSet has old > 0 and a relative delta
\* above 35% or a new value above twice the old one.
LargePriceDelta(cs) ==
    \E i \in 1..Len(cs.Updated) : \E j \in 1..Len(cs.Updated[i].Changes) :
        LET c == cs.Updated[i].Changes[j] IN
        /\ c.field \in PriceFields
        /\ c.old.kind = "num" /\ c.new.kind = "num"
        /\ c.old.num > 0
        /\ \/ 100 * Abs(c.new.num - c.old.num) > 35 * c.old.num
           \/ c.new.num > 2 * c.old.num

\* C11: assessRisk returns draft = true exactly when the ChangeSet has more
\* than 25 New plus Updated entries, or more than 3 DeprecationCandidates, or
\* a large price delta; it never blocks.
C11_DraftIffRisky ==
    \A i \in 1..Len(riskSeen) :
        /\ riskSeen[i].draft <=>
              \/ Len(riskInput.New) + Len(riskInput.Updated) > 25
              \/ Len(riskInput.DeprecationCandidates) > 3
              \/ LargePriceDelta(riskInput)
        /\ ~riskSeen[i].blocked

\* C11 witness: 26 changes without a large price delta and with at most 3
\* candidates were assessed as draft.
C11_Witness ==
    /\ Len(riskSeen) = 1
    /\ riskSeen[1].draft
    /\ Len(riskInput.New) + Len(riskInput.Updated) = 26
    /\ Len(riskInput.DeprecationCandidates) <= 3
    /\ ~LargePriceDelta(riskInput)

\* ------------------------- SpecSnapshot: looksLikeDatedSnapshot on one name

\* Most "-"-separated segments of a stored record's name.
MaxSegments == 4

RECURSIVE JoinSegments(_)
JoinSegments(segs) ==
    IF Len(segs) = 1 THEN segs[1]
    ELSE segs[1] \o <<"-">> \o JoinSegments(Tail(segs))

\* The names of stored records: up to MaxSegments segments out of letters, a
\* version, digit runs of length 2, 4 and 8, and a 4-character segment that is
\* not all digits.
SnapshotNames ==
    LET segments ==
            { <<"a">>, <<"v", "2">>, <<"2", "2">>, <<"2", "0", "2", "4">>,
              <<"2", "0", "2", "4", "0", "5", "1", "3">>, <<"2", "0", "2", "a">> }
    IN  UNION { { JoinSegments(segs) : segs \in [1..n -> segments] } :
                n \in 1..MaxSegments }

InitSnapshot ==
    /\ snapshotName \in SnapshotNames
    /\ snapshotSeen = << >>
    /\ SemverIdle
    /\ WriteIdle
    /\ DiffIdle
    /\ PipelineIdle
    /\ riskInput = << >> /\ riskSeen = << >>
    /\ pathName = << >> /\ pathsTouched = << >>

\* The test Compute makes for a stored record that was not discovered
\* (diff.go:52-53).
DatedSnapshotStep ==
    /\ snapshotSeen = << >>
    /\ snapshotSeen' = Append(snapshotSeen, looksLikeDatedSnapshotChars(snapshotName))
    /\ UNCHANGED <<snapshotName, riskInput, riskSeen, pathName, pathsTouched>>
    /\ UNCHANGED <<semverVars, writeVars, diffVars, pipelineVars>>

SpecSnapshot == InitSnapshot /\ [][DatedSnapshotStep]_vars

\* ------------------------------------------------------ Claims: disappearance

\* The name ends in a date-like segment after its first one: a last segment
\* of 4 or 8 digits, or the last three segments reading YYYY-MM-DD.
EndsInDateSegment(chars) ==
    LET parts == Split(chars, "-")
        n == Len(parts)
    IN  /\ n >= 2
        /\ \/ Len(parts[n]) \in {4, 8} /\ isAllDigits(parts[n])
           \/ /\ n >= 4
              /\ Len(parts[n - 2]) = 4 /\ Len(parts[n - 1]) = 2 /\ Len(parts[n]) = 2
              /\ isAllDigits(parts[n - 2]) /\ isAllDigits(parts[n - 1])
              /\ isAllDigits(parts[n])

\* C16: a stored record absent from discovery is exempted from the
\* disappearance candidates exactly when its name ends in a date-like segment.
C16_ExemptOnlyTrailingDate ==
    \A i \in 1..Len(snapshotSeen) :
        snapshotSeen[i] <=> EndsInDateSegment(snapshotName)

\* ------- SpecFields: one stored record and one discovered record of the same
\* name, through diff.Compute and through WriteModel

\* The pairs of records.  Capability lists are empty, one element, two in
\* either order, or a duplicate, on otherwise equal records or against a
\* discovery with every other attribute absent; every other attribute is, as
\* (stored, discovered), equal, absent in the discovery, or different, in
\* every combination, with equal capabilities.
FieldPairs ==
    LET caps == { << >>, <<"chat">>, <<"chat", "vision">>, <<"vision", "chat">>,
                  <<"chat", "chat">> }
        families == { <<"f1", "f1">>, <<"f1", "">>, <<"f1", "f2">> }
        statuses == { <<"stable", "stable">>, <<"stable", "">>, <<"stable", "beta">> }
        costs ==
            { <<Cost(5000, 15000), Cost(5000, 15000)>>, <<Cost(5000, 15000), NilCost>>,
              <<Cost(5000, 15000), Cost(0, 0)>>,
              <<Cost(5000, 15000), Cost(10000, 15000)>>,
              <<NilCost, Cost(0, 0)>>, <<NilCost, Cost(5000, 15000)>> }
        maxTokens == { <<100000, 100000>>, <<100000, 0>>, <<100000, 128000>> }
        inputs ==
            { << <<"text">>, <<"text">> >>, << <<"text">>, << >> >>,
              << <<"text">>, <<"text", "image">> >>,
              << <<"text", "image">>, <<"image", "text">> >> }
        displays == { <<"D1", "D1">>, <<"D1", "">>, <<"D1", "D2">> }
    IN  { [existing |-> MkModel("a-v1", "D1", "f1", "stable", Cost(5000, 15000), 100000,
                                0, a, <<"text">>, <<"text">>),
           discovered |->
               IF full
                 THEN MkModel("a-v1", "D1", "f1", "stable", Cost(5000, 15000),
                              100000, 0, b, <<"text">>, <<"text">>)
                 ELSE MkModel("a-v1", "", "", "", NilCost, 0, 0, b, << >>, << >>)] :
            a \in caps, b \in caps, full \in BOOLEAN }
        \cup
        { [existing |-> MkModel("a-v1", d[1], f[1], s[1], c[1], mt[1], 0,
                                <<"chat">>, inp[1], <<"text">>),
           discovered |-> MkModel("a-v1", d[2], f[2], s[2], c[2], mt[2], 0,
                                  <<"chat">>, inp[2], <<"text">>)] :
            d \in displays, f \in families, s \in statuses, c \in costs,
            mt \in maxTokens, inp \in inputs }

\* The stored record is read from the file the engine keeps for it; the
\* writer is handed the record Compute makes of the discovered one.
InitFields ==
    /\ \E pair \in FieldPairs :
           /\ stored = YamlFile(MarshalModel(pair.existing))
           /\ diffExisting = [n \in {"a-v1"} |-> UnmarshalModel(MarshalModel(pair.existing))]
           /\ diffDiscovered = << Discovered(pair.discovered, "api") >>
           /\ incoming = toCatalogModel(Discovered(pair.discovered, "api"))
    /\ diffOpts \in {[TrackDisplayName |-> t] : t \in BOOLEAN}
    /\ changeSets = << >>
    /\ written = << >>
    /\ SemverIdle
    /\ PipelineIdle
    /\ CallsIdle

\* One comparison by the diff engine.
CompareStep ==
    /\ changeSets = << >>
    /\ changeSets' = << Compute("pa", diffDiscovered, diffExisting, diffOpts, <<"a-v1">>) >>
    /\ UNCHANGED <<diffExisting, diffDiscovered, diffOpts>>
    /\ UNCHANGED <<semverVars, writeVars, pipelineVars, callVars>>

\* One WriteModel call for the discovered record.
MergeStep ==
    /\ written = << >>
    /\ written' = << WriteModel(stored, incoming, FALSE) >>
    /\ UNCHANGED <<stored, incoming>>
    /\ UNCHANGED <<semverVars, diffVars, pipelineVars, callVars>>

NextFields ==
    \/ CompareStep
    \/ MergeStep

SpecFields == InitFields /\ [][NextFields]_vars

\* -------------------------------------------------- Claims: field comparison

\* The stored and the discovered record of SpecFields.
FieldsStored == diffExisting["a-v1"]
FieldsDiscovered == diffDiscovered[1]

\* The fields of the FieldChanges Compute reported for the record.
ReportedFields(cs) ==
    UNION { {cs.Updated[i].Changes[j].field : j \in 1..Len(cs.Updated[i].Changes)} :
            i \in 1..Len(cs.Updated) }

\* C13: Compute reports a capabilities FieldChange exactly when the stored and
\* the discovered capability lists differ as sets.
C13_CapabilitiesSymmetric ==
    \A i \in 1..Len(changeSets) :
        ("capabilities" \in ReportedFields(changeSets[i]))
          <=> toSet(FieldsStored.capabilities) # toSet(FieldsDiscovered.capabilities)

\* C13 witness: a discovery that only removes a capability was reported as a
\* capabilities change.
C13_Witness ==
    /\ Len(changeSets) = 1
    /\ "capabilities" \in ReportedFields(changeSets[1])
    /\ toSet(FieldsDiscovered.capabilities) # {}
    /\ toSet(FieldsDiscovered.capabilities) \subseteq toSet(FieldsStored.capabilities)
    /\ toSet(FieldsDiscovered.capabilities) # toSet(FieldsStored.capabilities)

\* The fields a FieldChange can name for each attribute the discovered record
\* leaves absent.
AbsentFields(d) ==
    (IF d.family = "" THEN {"family"} ELSE {})
    \cup (IF d.status = "" THEN {"status"} ELSE {})
    \cup (IF d.limits.max_tokens = 0 THEN {"limits.max_tokens"} ELSE {})
    \cup (IF d.limits.max_completion_tokens = 0 THEN {"limits.max_completion_tokens"} ELSE {})
    \cup (IF ~d.cost.set \/ zeroCost(d.cost) THEN CostFields ELSE {})
    \cup (IF Len(d.capabilities) = 0 THEN {"capabilities"} ELSE {})
    \cup (IF Len(d.modalities.input) = 0 THEN {"modalities.input"} ELSE {})
    \cup (IF Len(d.modalities.output) = 0 THEN {"modalities.output"} ELSE {})

\* C14: Compute reports no FieldChange for an attribute that is absent in the
\* discovered record.
C14_AbsentNeverReported ==
    \A i \in 1..Len(changeSets) :
        ReportedFields(changeSets[i]) \cap AbsentFields(FieldsDiscovered) = {}

\* C18: for one pair of stored and incoming record the writer finds changes
\* (and writes the file) exactly when the diff engine reports the record as
\* Updated.
C18_WriterAgreesWithDiff ==
    \A i \in 1..Len(changeSets) : \A j \in 1..Len(written) :
        /\ (written[j].changes # << >>) <=> (Len(changeSets[i].Updated) > 0)
        /\ written[j].wrote <=> (Len(changeSets[i].Updated) > 0)

\* ------------------------------------------- Claims: display name, validation,
\* judge

\* C17: with display-name tracking off, a pass reports no display_name
\* FieldChange and leaves the display_name of every stored record as it was.
C17_DisplayNameAuthoritative ==
    \A i \in 1..Len(passes) :
        LET e == passes[i] IN
        ~cfg.TrackDisplayName =>
            /\ "display_name" \notin ReportedFields(e.result.ChangeSet)
            /\ \A n \in DOMAIN e.before.dir :
                   (e.before.dir[n].state = "yaml" /\ e.after.dir[n].state = "yaml")
                   => RecordIn(e.after.dir, n).display_name
                        = RecordIn(e.before.dir, n).display_name

\* The ChangeSet of a pass has a New or Updated record that does not validate.
HasInvalidRecord(cs) ==
    \/ \E k \in 1..Len(cs.New) : ValidateModelHasErrors(cs.New[k].Model)
    \/ \E k \in 1..Len(cs.Updated) : ValidateModelHasErrors(cs.Updated[k].Model)

\* C19: a pass whose ChangeSet holds a New or Updated record with a validation
\* error leaves the record files, the version file and the manifest as they
\* were and reports the error, and the loop of Sync goes on to the next
\* provider.
C19_ValidationBlocksWrite ==
    \A i \in 1..Len(passes) :
        LET e == passes[i]
            pos == CHOOSE k \in 1..Len(cfg.Providers) : cfg.Providers[k] = e.provider
        IN  (e.result.HasChangeSet /\ HasInvalidRecord(e.result.ChangeSet))
            => /\ e.result.Error = "validation failed"
               /\ e.after.dir = e.before.dir
               /\ e.after.version = e.before.version
               /\ e.after.manifest = e.before.manifest
               /\ e.wrote = {}
               /\ pos < Len(cfg.Providers) =>
                      IF i = Len(passes) THEN cursor = pos + 1
                      ELSE /\ passes[i + 1].provider = cfg.Providers[pos + 1]
                           /\ passes[i + 1].sync = e.sync

\* C19 witness: the first provider's pass failed validation and the second
\* provider's pass of the same Sync wrote a record file.
C19_Witness ==
    \E i \in 1..(Len(passes) - 1) :
        /\ passes[i].result.Error = "validation failed"
        /\ HasInvalidRecord(passes[i].result.ChangeSet)
        /\ passes[i + 1].sync = passes[i].sync
        /\ passes[i + 1].provider # passes[i].provider
        /\ passes[i + 1].wrote # {}

\* The names of the New and of the Updated entries of a ChangeSet, in order.
NewNames(cs) == [k \in 1..Len(cs.New) |-> cs.New[k].Name]
UpdatedNames(cs) == [k \in 1..Len(cs.Updated) |-> cs.Updated[k].Name]

\* What Compute returns for the pass from the files it started with (New and
\* Updated do not depend on the order the stored records are iterated in).
Unfiltered(e) ==
    LET existing == loadProvider(e.before.dir)
    IN  Compute(e.provider, deduplicateDiscovered(feed[e.provider]), existing,
                [TrackDisplayName |-> cfg.TrackDisplayName],
                CHOOSE o \in IterOrders(DOMAIN existing) : TRUE)

\* C20: a pass whose judge call failed keeps every New and Updated entry,
\* carries the draft flag of the risk assessment and no judge result, and goes
\* on to its write, version and manifest steps.
C20_JudgeFailsOpen ==
    \A i \in 1..Len(passes) :
        LET e == passes[i]
            cs == e.result.ChangeSet
        IN  e.judgeErr =>
              /\ NewNames(cs) = NewNames(Unfiltered(e))
              /\ UpdatedNames(cs) = UpdatedNames(Unfiltered(e))
              /\ e.result.PRDraft = assessRisk(Unfiltered(e)).draft
              /\ ~e.result.JudgeResult.set
              /\ ~e.result.Skipped
              /\ e.stage \in (IF cfg.DryRun THEN {"dry run"}
                              ELSE {"write", "version", "pr", "done"})
              /\ e.stage \in {"pr", "done"} =>
                     /\ e.after.version # e.before.version
                     /\ e.after.manifest # e.before.manifest
                     /\ e.after.manifest.version = TrimSpace(e.after.version)

\* C20 witness: a pass whose judge call failed wrote a record file, advanced
\* the version and regenerated the manifest.
C20_Witness ==
    \E i \in 1..Len(passes) :
        /\ passes[i].judgeErr
        /\ passes[i].stage \in {"pr", "done"}
        /\ passes[i].wrote # {}
        /\ passes[i].after.version # passes[i].before.version
        /\ passes[i].after.manifest # passes[i].before.manifest

\* ------------------------------------------------- claims: renames per record

\* C27: in every ChangeSet returned by Compute each New record is the NewName
\* of at most one RenamePair.
C27_OneRenamePerNew ==
    \A k \in 1..Len(changeSets) :
        LET renames == changeSets[k].PossibleRenames
        IN  \A i, j \in 1..Len(renames) :
                renames[i].NewName = renames[j].NewName => i = j

\* ---------------------------------------------------- claims: flagged records

\* C28: whenever the judge's result holds a flagged record, ApplyToChangeSet
\* returns forceDraft = true, whatever the on_reject behaviour and whether or
\* not records were rejected too: the pass's PRDraft is set.
C28_FlagForcesDraft ==
    \A k \in 1..Len(passes) :
        LET r == passes[k].result
        IN  (r.JudgeResult.set /\ r.JudgeResult.flagged) => r.PRDraft

\* ------------------------------------------------------ claims: merge ordering

\* The top-level keys only the incoming document defines, in incoming order.
IncomingOnly(before, inc) == SelectSeq(Keys(inc), LAMBDA k : ~HasKey(before, k))

\* The document after has the keys of the document before in their order,
\* then the keys only the incoming document defines in incoming order; a key
\* of both holds the incoming value, a key of the stored document alone its
\* stored value, an appended key its incoming value.
MergedInOrder(before, inc, after) ==
    /\ Keys(after) = Keys(before) \o IncomingOnly(before, inc)
    /\ \A i \in 1..Len(before.pairs) :
           after.pairs[i].val = IF HasKey(inc, before.pairs[i].key)
                                  THEN Get(inc, before.pairs[i].key)
                                  ELSE before.pairs[i].val
    /\ \A i \in (Len(before.pairs) + 1)..Len(after.pairs) :
           after.pairs[i].val = Get(inc, after.pairs[i].key)

\* C26: the file WriteModel wrote by merging has the stored file's top-level
\* keys in their original order followed by the incoming-only keys in incoming
\* order; a key of both keeps its position and takes the incoming value.
C26_MergeKeepsOrder ==
    \A i \in 1..Len(written) :
        (Merged(written[i]) /\ written[i].wrote) =>
            MergedInOrder(stored.doc, MarshalModel(incoming), written[i].file.doc)

\* A merge took place into a file with a hand-added key between two known
\* keys, and the incoming record defined several keys the file did not have.
C26_Witness ==
    \E i \in 1..Len(written) :
        /\ Merged(written[i]) /\ written[i].wrote
        /\ Keys(stored.doc) = <<"status", "custom_notes", "name">>
        /\ Len(IncomingOnly(stored.doc, MarshalModel(incoming))) >= 5
        /\ incoming.cost.set

\* ------------------------------------------------- claims: nothing is deleted

\* The names of the records a models directory holds, as loadProvider reads
\* them from its parseable files.
StoredNames(dir) ==
    {UnmarshalModel(dir[n].doc).name : n \in {f \in DOMAIN dir : dir[f].state = "yaml"}}

\* C21: no step of any sequence of passes removes a record file that is on
\* disk, and the set of stored record names never shrinks; a record missing
\* from discovery is reported as a candidate and its file stays.
C21_NoRecordRemoved ==
    [][\A p \in DOMAIN disk :
           /\ \A n \in DOMAIN disk[p] :
                  disk[p][n].state # "absent" => disk'[p][n].state # "absent"
           /\ StoredNames(disk[p]) \subseteq StoredNames(disk'[p])]_vars

\* A pass ran to its end and wrote a record file while another stored record
\* was missing from discovery: that record is a deprecation candidate of the
\* ChangeSet and its file is on disk as it was.
C21_Witness ==
    \E k \in 1..Len(passes) :
        LET e == passes[k]
            gone == Names(e.result.ChangeSet.DeprecationCandidates)
        IN  /\ e.stage = "done" /\ e.wrote # {}
            /\ gone # {}
            /\ \A n \in gone : /\ e.after.dir[n].state = "yaml"
                               /\ e.after.dir[n] = e.before.dir[n]
                               /\ disk[e.provider][n] = e.before.dir[n]

\* ------------------------------------------------------ claims: x_updater block

\* The record file holds an x_updater mapping with last_verified_at and sources.
HasXUpdater(file) ==
    /\ file.state = "yaml"
    /\ HasKey(file.doc, "x_updater")
    /\ HasKey(Get(file.doc, "x_updater"), "last_verified_at")
    /\ HasKey(Get(file.doc, "x_updater"), "sources")

\* C23: after a pass that is not a dry run and ended without error, the file
\* of every New and of every Updated record of its ChangeSet holds an
\* x_updater block with last_verified_at and sources.
C23_XUpdaterWritten ==
    \A k \in 1..Len(passes) :
        LET e == passes[k] IN
        (e.stage = "done" /\ ~cfg.DryRun) =>
            \A n \in Names(e.result.ChangeSet.New) \cup Names(e.result.ChangeSet.Updated) :
                HasXUpdater(e.after.dir[n])

\* ------------------------------------------- claims: version against file writes

\* The pass created or modified a record file of its group.
FileWritten(e) == \E n \in DOMAIN e.before.dir : e.after.dir[n] # e.before.dir[n]

\* C30: in every pass that is not a dry run the version file is advanced if
\* and only if a record file of the group was created or modified in the pass.
C30_BumpIffFileWritten ==
    \A k \in 1..Len(passes) :
        ~cfg.DryRun => (passes[k].after.version # passes[k].before.version
                            <=> FileWritten(passes[k]))

\* ---------------------------------------------------- claims: source health

\* The discovery of the pass returned fewer than 90% of the adapter's minimum
\* expected number of records.
BelowNinetyPercent(p) ==
    /\ p \in Registered
    /\ MinExpectedModels(p) > 0
    /\ 100 * Len(deduplicateDiscovered(feed[p])) < 90 * MinExpectedModels(p)

\* C25: with health checks enabled (threshold 0.90) a pass whose discovery
\* returns fewer than 90% of the adapter's minimum expected count ends with an
\* error before any diff, write or PR.
C25_LowCountAborts ==
    \A k \in 1..Len(passes) :
        LET e == passes[k] IN
        (cfg.HealthEnabled /\ cfg.ThresholdPct = 90 /\ BelowNinetyPercent(e.provider)) =>
            /\ e.stage = "discover"
            /\ e.result.Error # ""
            /\ ~e.result.HasChangeSet
            /\ e.after = e.before

\* ---------------------------------------------------- claims: read-only modes

\* C22: no step of a Sync with dry_run enabled and no run of Diff modifies a
\* record file, advances the version file, regenerates the manifest, or
\* creates a branch or a pull request.
C22_ReadOnlyModesWriteNothing ==
    [][(cfg.DryRun \/ diffRuns' # diffRuns) =>
           UNCHANGED <<disk, versionTxt, manifest, bumpLog, prs, git>>]_vars

\* A dry-run pass came to its end with records to write, and a run of Diff
\* returned a ChangeSet with changes.
C22_Witness ==
    /\ cfg.DryRun
    /\ \E k \in 1..Len(passes) :
           /\ passes[k].stage = "dry run"
           /\ TotalChanged(passes[k].result.ChangeSet) > 0
    /\ \E r \in 1..Len(diffRuns) :
           \E i \in 1..Len(diffRuns[r].changesets) : HasChanges(diffRuns[r].changesets[i])

\* ------------------------------------------------- claims: one PR per provider

\* C29: the branch pushed for a provider's pull request was made from the base
\* branch and differs from it in that provider's files only (with the version
\* file and the manifest): no other provider's record file in it differs from
\* the base branch.
C29_BranchHoldsOwnChangesOnly ==
    \A k \in 1..Len(prs) :
        LET b == git.branches[prs[k].branch]
        IN  /\ b.parent = 0
            /\ \A q \in DOMAIN b.tree.disk \ {prs[k].provider} :
                   b.tree.disk[q] = git.base.disk[q]

\* ------------------------------------ SpecPath: the file WriteModel works on

\* Longest record name handed to WriteModel.
MaxNameLen == 4

\* filePath of WriteModel (writer.go:47-48): filepath.Join(modelsDir,
\* discovered.Name + ".yaml"), as the path elements below modelsDir.  The name
\* is a sequence of characters, the extension one more element of it; Join
\* cleans the path, which drops empty elements.
filePath(name) ==
    SelectSeq(Split(name \o <<".yaml">>, "/"), LAMBDA seg : seg # << >>)

\* The names a source reports: lower-case and upper-case letters, and "/"
\* between a namespace and the name.
InitPath ==
    /\ pathName \in UNION {[1..n -> {"a", "B", "/"}] : n \in 1..MaxNameLen}
    /\ pathsTouched = << >>
    /\ SemverIdle
    /\ WriteIdle
    /\ DiffIdle
    /\ PipelineIdle
    /\ riskInput = << >> /\ riskSeen = << >>
    /\ snapshotName = << >> /\ snapshotSeen = << >>

\* One call of WriteModel: os.ReadFile and, when it writes, os.WriteFile go to
\* filePath (writer.go:53, 98, 110).
WritePathStep ==
    /\ pathsTouched = << >>
    /\ pathsTouched' = Append(pathsTouched, filePath(pathName))
    /\ UNCHANGED <<pathName, riskInput, riskSeen, snapshotName, snapshotSeen>>
    /\ UNCHANGED <<semverVars, writeVars, diffVars, pipelineVars>>

SpecPath == InitPath /\ [][WritePathStep]_vars

\* ------------------------------------------------- claims: storage location

\* The last "/"-separated segment of a name.
LastSegment(name) == Split(name, "/")[Len(Split(name, "/"))]

\* The name in lower case.
ToLower(name) == [i \in 1..Len(name) |-> IF name[i] = "B" THEN "b" ELSE name[i]]

\* C24: the file WriteModel reads and writes for a record is the one file in
\* the models directory named by the last "/"-separated segment of Name, in
\* lower case, plus ".yaml".
C24_PathFromLastSegmentLowered ==
    \A i \in 1..Len(pathsTouched) :
        pathsTouched[i] = << ToLower(LastSegment(pathName)) \o <<".yaml">> >>

====
